---- MODULE Spec2Model ----
(***************************************************************************)
(* Hospital management: the field cipher (anonymizer.encrypt_data,         *)
(* decrypt_data, get_cipher) and the role-based disclosure of a patient    *)
(* record (anonymizer.prepare_patient_data_for_role and its transforms),   *)
(* and the application around them: the patients and logs tables           *)
(* (database.py), the session (auth.py) and the pages of app.py.           *)
(*                                                                         *)
(* Python str values are TLA+ strings.  A str that holds a Fernet token is *)
(* modelled symbolically (see Token): Fernet is authenticated encryption,  *)
(* so a token decrypts under the key that made it and under no other, and  *)
(* a str that is no token of the key does not decrypt at all.              *)
(***************************************************************************)
EXTENDS Integers, Sequences, FiniteSets, TLC

VARIABLES
    secrets_key,     \* st.secrets['ENCRYPTION_KEY'], None when absent
    env_key,         \* os.getenv('ENCRYPTION_KEY'), None when unset
    pc,              \* position of the caller that drives the functions
    data,            \* encrypt_data's argument
    encrypted,       \* encrypt_data's outcome: [exc, val]
    encrypted_data,  \* decrypt_data's argument
    decrypted,       \* decrypt_data's return value
    contact,         \* anonymize_contact's argument
    masked,          \* anonymize_contact's return value
    diagnosis,       \* anonymize_diagnosis's argument
    category,        \* anonymize_diagnosis's return value
    patient_data,    \* prepare_patient_data_for_role's first argument
    role,            \* prepare_patient_data_for_role's second argument
    view,            \* prepare_patient_data_for_role's return value
    cipher_calls,    \* the fields whose value reached cipher.decrypt in that call
    patients,        \* the patients table: patient_id -> row
    next_id,         \* the next AUTOINCREMENT patient_id
    logs,            \* the logs table, in log_id order
    session_state,   \* st.session_state of each browser session
    request,         \* what the last script run rendered and called
    last_call,       \* the last function called directly: its arguments and result
    script_run,      \* the local variables of each session's script run in progress
    issued           \* the results of the encrypt_data calls made so far

vars == << secrets_key, env_key, pc, data, encrypted, encrypted_data, decrypted,
           contact, masked, diagnosis, category, patient_data, role, view,
           cipher_calls, patients, next_id, logs, session_state, request,
           last_call, script_run, issued >>

(***************************************************************************)
(* Bounds of the model.                                                    *)
(***************************************************************************)
MaxIV == 2            \* distinct (timestamp, IV) draws of Fernet.encrypt
MaxContactLen == 5    \* longest contact string given to anonymize_contact
MaxFragments == 2     \* fragments concatenated into a diagnosis text
MaxPatients == 1      \* patient ids handed out by the patients table
MaxLogs == 2          \* rows of the logs table

(***************************************************************************)
(* Strings.                                                                *)
(***************************************************************************)
\* Python None, where a str is expected.
None == "<None>"

\* Python truthiness of an optional str: None and "" are falsy.
Falsy(s) == s = None \/ s = ""

\* w in s, for two str.
Contains(s, w) ==
    \E i \in 1..(Len(s) - Len(w) + 1) : SubSeq(s, i, i + Len(w) - 1) = w

\* The lower-case form of one character (the letters the model's texts use).
LowerChar(c) ==
    CASE c = "A" -> "a" [] c = "B" -> "b" [] c = "C" -> "c" [] c = "D" -> "d"
      [] c = "E" -> "e" [] c = "F" -> "f" [] c = "G" -> "g" [] c = "H" -> "h"
      [] c = "I" -> "i" [] c = "J" -> "j" [] c = "K" -> "k" [] c = "L" -> "l"
      [] c = "M" -> "m" [] c = "N" -> "n" [] c = "O" -> "o" [] c = "P" -> "p"
      [] c = "Q" -> "q" [] c = "R" -> "r" [] c = "S" -> "s" [] c = "T" -> "t"
      [] c = "U" -> "u" [] c = "V" -> "v" [] c = "W" -> "w" [] c = "X" -> "x"
      [] c = "Y" -> "y" [] c = "Z" -> "z" [] OTHER -> c

\* str.lower()
RECURSIVE Lower(_)
Lower(s) == IF s = "" THEN "" ELSE LowerChar(Head(s)) \o Lower(Tail(s))

\* One decimal digit as a character.
Digit(d) ==
    CASE d = 0 -> "0" [] d = 1 -> "1" [] d = 2 -> "2" [] d = 3 -> "3"
      [] d = 4 -> "4" [] d = 5 -> "5" [] d = 6 -> "6" [] d = 7 -> "7"
      [] d = 8 -> "8" [] d = 9 -> "9"

\* The f-string formatting {n} of a non-negative int.
RECURSIVE IntToStr(_)
IntToStr(n) == IF n < 10 THEN Digit(n) ELSE IntToStr(n \div 10) \o Digit(n % 10)

\* All strings of at most n characters over the alphabet A.
RECURSIVE StringsUpTo(_, _)
StringsUpTo(A, n) ==
    IF n = 0 THEN {""}
    ELSE LET S == StringsUpTo(A, n - 1) IN S \cup {s \o a : s \in S, a \in A}

(***************************************************************************)
(* The cipher service.                                                     *)
(***************************************************************************)
\* A function's outcome: a returned value, or a raised exception.
Return(v) == [exc |-> "", val |-> v]
Raise(e, v) == [exc |-> e, val |-> v]

\* A str that is no Fernet token under any key: the text itself.
Raw(s) == [key |-> "", iv |-> 0, text |-> s]

\* The str Fernet(k).encrypt(p.encode()).decode() with the draw iv of its
\* timestamp and IV: it decrypts to p under k, and fails under any other key.
Token(k, iv, p) == [key |-> k, iv |-> iv, text |-> p]

\* The keys Fernet accepts (32 url-safe base64-encoded bytes).
FernetKeys == {"K1", "K2"}

\* The key get_cipher picks, as the code picks it.
get_cipher ==
    LET from_secrets == IF secrets_key # None THEN secrets_key ELSE None
        key == IF Falsy(from_secrets) THEN env_key ELSE from_secrets
    IN  IF Falsy(key) THEN Raise("ValueError", None)
        ELSE IF key \notin FernetKeys THEN Raise("ValueError", None)
        ELSE Return(key)

\* Variant of encrypt_data without the early return for an empty argument.
encrypt_data_always_cipher(d, iv) ==
    LET cipher == get_cipher
    IN  IF cipher.exc # "" THEN Raise(cipher.exc, Raw(""))
        ELSE Return(Token(cipher.val, iv, d))

\* Variant of encrypt_data that normalises the text to lower case first.
encrypt_data_lower(d, iv) ==
    IF d = "" THEN Return(Raw(""))
    ELSE LET cipher == get_cipher
         IN  IF cipher.exc # "" THEN Raise(cipher.exc, Raw(""))
             ELSE Return(Token(cipher.val, iv, Lower(d)))

\* Variant of encrypt_data whose cipher takes no draw: the same token for
\* the same text.
encrypt_data_fixed_iv(d, iv) ==
    IF d = "" THEN Return(Raw(""))
    ELSE LET cipher == get_cipher
         IN  IF cipher.exc # "" THEN Raise(cipher.exc, Raw(""))
             ELSE Return(Token(cipher.val, 1, d))

\* encrypt_data(d), iv being the draw Fernet makes.
encrypt_data(d, iv) ==
    IF d = "" THEN Return(Raw(""))
    ELSE LET cipher == get_cipher
         IN  IF cipher.exc # "" THEN Raise(cipher.exc, Raw(""))
             ELSE Return(Token(cipher.val, iv, d))

DecryptionError == "[Decryption Error]"

\* Variant of decrypt_data without the early return for an empty argument.
decrypt_data_always_cipher(e) ==
    LET cipher == get_cipher
    IN  IF cipher.exc # ""
            THEN [val |-> DecryptionError, cipher |-> TRUE, exc |-> ""]
        ELSE IF e.key = cipher.val
            THEN [val |-> e.text, cipher |-> TRUE, exc |-> ""]
        ELSE [val |-> DecryptionError, cipher |-> TRUE, exc |-> ""]

\* Variant of decrypt_data that takes what the token carries without
\* verifying it against the key.
decrypt_data_unverified(e) ==
    IF e = Raw("") THEN [val |-> "", cipher |-> FALSE, exc |-> ""]
    ELSE LET cipher == get_cipher
         IN  IF cipher.exc # ""
                 THEN [val |-> DecryptionError, cipher |-> TRUE, exc |-> ""]
             ELSE [val |-> e.text, cipher |-> TRUE, exc |-> ""]

\* Variant of decrypt_data that obtains the cipher before its try block, so
\* that a missing key escapes as it does from encrypt_data.
decrypt_data_cipher_outside_try(e) ==
    IF e = Raw("") THEN [val |-> "", cipher |-> FALSE, exc |-> ""]
    ELSE LET cipher == get_cipher
         IN  IF cipher.exc # ""
                 THEN [val |-> "", cipher |-> TRUE, exc |-> cipher.exc]
             ELSE IF e.key = cipher.val
                 THEN [val |-> e.text, cipher |-> TRUE, exc |-> ""]
             ELSE [val |-> DecryptionError, cipher |-> TRUE, exc |-> ""]

\* decrypt_data(e): val is what it returns, cipher whether it got as far as
\* the cipher (lines 71-72), exc the exception it lets escape.  Every
\* exception of get_cipher and of cipher.decrypt is caught (line 74) and
\* becomes the sentinel, so none escapes.
decrypt_data(e) ==
    IF e = Raw("") THEN [val |-> "", cipher |-> FALSE, exc |-> ""]
    ELSE LET cipher == get_cipher
         IN  IF cipher.exc # ""
                 THEN [val |-> DecryptionError, cipher |-> TRUE, exc |-> ""]
             ELSE IF e.key = cipher.val
                 THEN [val |-> e.text, cipher |-> TRUE, exc |-> ""]
             ELSE [val |-> DecryptionError, cipher |-> TRUE, exc |-> ""]

(***************************************************************************)
(* The anonymization transforms.                                           *)
(***************************************************************************)
anonymize_name(patient_id) == "ANON_" \o IntToStr(patient_id)

\* Variant of anonymize_contact with <= in place of <.
anonymize_contact_le4(c) ==
    IF c = "" \/ Len(c) <= 4 THEN "XXX-XXX-XXXX"
    ELSE "XXX-XXX-" \o SubSeq(c, Len(c) - 3, Len(c))

anonymize_contact(c) ==
    IF c = "" \/ Len(c) < 4 THEN "XXX-XXX-XXXX"
    ELSE "XXX-XXX-" \o SubSeq(c, Len(c) - 3, Len(c))

Restricted == "[Restricted]"

RespiratoryWords == {"fever", "flu", "cold", "cough"}
MetabolicWords == {"diabetes", "sugar", "insulin"}
CardiovascularWords == {"heart", "cardiac", "blood pressure"}
InjuryWords == {"fracture", "injury", "wound"}

\* any(word in text for word in words)
AnyWordIn(words, text) == \E word \in words : Contains(text, word)

\* Variant of anonymize_diagnosis with its first two branches exchanged.
anonymize_diagnosis_metabolic_first(d) ==
    IF d = "" THEN Restricted
    ELSE LET diagnosis_lower == Lower(d)
         IN  IF AnyWordIn(MetabolicWords, diagnosis_lower)
                 THEN "Metabolic Condition"
             ELSE IF AnyWordIn(RespiratoryWords, diagnosis_lower)
                 THEN "Respiratory Condition"
             ELSE IF AnyWordIn(CardiovascularWords, diagnosis_lower)
                 THEN "Cardiovascular Condition"
             ELSE IF AnyWordIn(InjuryWords, diagnosis_lower)
                 THEN "Injury/Trauma"
             ELSE "General Medical Condition"

anonymize_diagnosis(d) ==
    IF d = "" THEN Restricted
    ELSE LET diagnosis_lower == Lower(d)
         IN  IF AnyWordIn(RespiratoryWords, diagnosis_lower)
                 THEN "Respiratory Condition"
             ELSE IF AnyWordIn(MetabolicWords, diagnosis_lower)
                 THEN "Metabolic Condition"
             ELSE IF AnyWordIn(CardiovascularWords, diagnosis_lower)
                 THEN "Cardiovascular Condition"
             ELSE IF AnyWordIn(InjuryWords, diagnosis_lower)
                 THEN "Injury/Trauma"
             ELSE "General Medical Condition"

(***************************************************************************)
(* The disclosure policy: prepare_patient_data_for_role, one operator per  *)
(* branch.  Each gives the view and the fields that reached the cipher.    *)
(***************************************************************************)
\* decrypt_data on field f of the record p, with the cipher's use recorded.
Decrypt(p, f) ==
    LET r == decrypt_data(p[f])
    IN  [val |-> r.val, calls |-> IF r.cipher THEN {f} ELSE {}]

\* Variant of admin_view that masks the contact as the other roles do.
admin_view_masked(p) ==
    LET n == Decrypt(p, "name")
        c == Decrypt(p, "contact")
        d == Decrypt(p, "diagnosis")
    IN  [view |-> [patient_id |-> p.patient_id,
                   name |-> n.val,
                   contact |-> anonymize_contact(c.val),
                   diagnosis |-> d.val,
                   date_added |-> p.date_added],
         calls |-> n.calls \cup c.calls \cup d.calls]

admin_view(p) ==
    LET n == Decrypt(p, "name")
        c == Decrypt(p, "contact")
        d == Decrypt(p, "diagnosis")
    IN  [view |-> [patient_id |-> p.patient_id,
                   name |-> n.val,
                   contact |-> c.val,
                   diagnosis |-> d.val,
                   date_added |-> p.date_added],
         calls |-> n.calls \cup c.calls \cup d.calls]

\* Variant of doctor_view that leaves the decrypted diagnosis as it is.
doctor_view_raw_diagnosis(p) ==
    LET c == Decrypt(p, "contact")
        d == Decrypt(p, "diagnosis")
    IN  [view |-> [patient_id |-> p.patient_id,
                   name |-> anonymize_name(p.patient_id),
                   contact |-> anonymize_contact(c.val),
                   diagnosis |-> d.val,
                   date_added |-> p.date_added],
         calls |-> c.calls \cup d.calls]

\* Variant of doctor_view that decrypts the name as the admin branch does.
doctor_view_real_name(p) ==
    LET n == Decrypt(p, "name")
        c == Decrypt(p, "contact")
        d == Decrypt(p, "diagnosis")
    IN  [view |-> [patient_id |-> p.patient_id,
                   name |-> n.val,
                   contact |-> anonymize_contact(c.val),
                   diagnosis |-> anonymize_diagnosis(d.val),
                   date_added |-> p.date_added],
         calls |-> n.calls \cup c.calls \cup d.calls]

doctor_view(p) ==
    LET c == Decrypt(p, "contact")
        d == Decrypt(p, "diagnosis")
    IN  [view |-> [patient_id |-> p.patient_id,
                   name |-> anonymize_name(p.patient_id),
                   contact |-> anonymize_contact(c.val),
                   diagnosis |-> anonymize_diagnosis(d.val),
                   date_added |-> p.date_added],
         calls |-> c.calls \cup d.calls]

\* Variant of receptionist_view that categorizes the diagnosis as the doctor
\* branch does.
receptionist_view_category(p) ==
    LET c == Decrypt(p, "contact")
        d == Decrypt(p, "diagnosis")
    IN  [view |-> [patient_id |-> p.patient_id,
                   name |-> anonymize_name(p.patient_id),
                   contact |-> anonymize_contact(c.val),
                   diagnosis |-> anonymize_diagnosis(d.val),
                   date_added |-> p.date_added],
         calls |-> c.calls \cup d.calls]

\* Variant of the receptionist branch that shows the decrypted diagnosis.
receptionist_view_raw_diagnosis(p) ==
    LET c == Decrypt(p, "contact")
        d == Decrypt(p, "diagnosis")
    IN  [view |-> [patient_id |-> p.patient_id,
                   name |-> anonymize_name(p.patient_id),
                   contact |-> anonymize_contact(c.val),
                   diagnosis |-> d.val,
                   date_added |-> p.date_added],
         calls |-> c.calls \cup d.calls]

receptionist_view(p) ==
    LET c == Decrypt(p, "contact")
    IN  [view |-> [patient_id |-> p.patient_id,
                   name |-> anonymize_name(p.patient_id),
                   contact |-> anonymize_contact(c.val),
                   diagnosis |-> Restricted,
                   date_added |-> p.date_added],
         calls |-> c.calls]

restricted_view(p) ==
    [view |-> [patient_id |-> p.patient_id,
               name |-> Restricted,
               contact |-> Restricted,
               diagnosis |-> Restricted,
               date_added |-> p.date_added],
     calls |-> {}]

\* Variant of the dispatch that compares the role without regard to case.
prepare_patient_data_for_role_any_case(p, r) ==
    IF Lower(r) = "admin" THEN admin_view(p)
    ELSE IF Lower(r) = "doctor" THEN doctor_view(p)
    ELSE IF Lower(r) = "receptionist" THEN receptionist_view(p)
    ELSE restricted_view(p)

prepare_patient_data_for_role(p, r) ==
    IF r = "admin" THEN admin_view(p)
    ELSE IF r = "doctor" THEN doctor_view(p)
    ELSE IF r = "receptionist" THEN receptionist_view(p)
    ELSE restricted_view(p)

(***************************************************************************)
(* Inputs.                                                                 *)
(***************************************************************************)
IVs == 1..MaxIV

\* What the two key sources may hold: nothing, an empty value, a Fernet key,
\* a value Fernet rejects.
SecretsValues == {None, "", "K1"}
EnvValues == {None, "", "K1", "K2", "not-a-fernet-key"}

Plaintexts == {"", "a", "John Doe", "123-456-7890", "Fever and flu",
               DecryptionError, Restricted}

\* Stored strings that did not come out of encrypt_data in this run: empty,
\* malformed, and tokens made earlier under either key.
StoredValues == {Raw(""), Raw("garbage"), Raw("John Doe"),
                 Token("K1", 1, "John Doe"), Token("K2", 1, "John Doe")}

ContactAlphabet == {"7", "-", "a"}
ContactInputs == StringsUpTo(ContactAlphabet, MaxContactLen)

AllWords == RespiratoryWords \cup MetabolicWords \cup CardiovascularWords
                \cup InjuryWords
DiagnosisFragments == AllWords \cup {"Flu", "SUGAR", "Heart", "fl", "u", " ",
                                     "blood", "pressure", "Unknown condition"}

RECURSIVE Concatenations(_, _)
Concatenations(F, n) ==
    IF n = 0 THEN {""}
    ELSE LET S == Concatenations(F, n - 1) IN S \cup {s \o f : s \in S, f \in F}

DiagnosisInputs == Concatenations(DiagnosisFragments, MaxFragments)

PatientIds == {1, 12, 1021}
Dates == {"2025-01-01 10:00:00", "2025-01-01"}
Roles == {"admin", "doctor", "receptionist", "", "Admin", "DOCTOR", "unknown"}

\* What a sensitive field of a record may hold: a token of one of the texts
\* under either key, nothing, or a string that is no token.
FieldValues(texts) ==
    {Token(k, 1, t) : k \in FernetKeys, t \in texts} \cup {Raw(""), Raw("garbage")}

NameTexts == {"John Doe", "ANON_1"}
ContactTexts == {"123-456-7890", "123", "7890"}
DiagnosisTexts == {"Fever and flu", "High blood sugar", "Restricted"}

Records == [patient_id : PatientIds,
            name : FieldValues(NameTexts),
            contact : FieldValues(ContactTexts),
            diagnosis : FieldValues(DiagnosisTexts),
            date_added : Dates]

(***************************************************************************)
(* Initial states: each specification draws the inputs of the functions it *)
(* is about and leaves the other variables idle.                           *)
(***************************************************************************)
NoView == [patient_id |-> 0, name |-> "", contact |-> "", diagnosis |-> "",
           date_added |-> ""]
NoRecord == [patient_id |-> 0, name |-> Raw(""), contact |-> Raw(""),
             diagnosis |-> Raw(""), date_added |-> ""]

keyVars == << secrets_key, env_key >>
cipherVars == << data, encrypted, encrypted_data, decrypted >>
contactVars == << contact, masked >>
diagnosisVars == << diagnosis, category >>
viewVars == << patient_data, role, view, cipher_calls >>

CipherIdle ==
    /\ data = ""
    /\ encrypted = Return(Raw(""))
    /\ encrypted_data = Raw("")
    /\ decrypted = ""

ContactIdle == contact = "" /\ masked = ""

DiagnosisIdle == diagnosis = "" /\ category = ""

ViewIdle ==
    /\ patient_data = NoRecord
    /\ role = ""
    /\ view = NoView
    /\ cipher_calls = {}

\* The browser sessions, and a script run that has not happened.
Sessions == {"s1"}
NoRequest == [session |-> "", page |-> "", view_role |-> "", viewed |-> {},
              decrypted |-> {}, logged |-> {}, call |-> "", ret |-> "",
              patient_id |-> 0]

\* No function called directly, no script run in progress, nothing encrypted.
NoCall == [fn |-> "", args |-> << >>, ret |-> ""]

storeVars == << patients, next_id, logs >>
traceVars == << last_call, script_run, issued >>
appVars == << storeVars, session_state, request, traceVars >>
engineVars == << pc, cipherVars, contactVars, diagnosisVars, viewVars >>

TraceIdle ==
    /\ last_call = NoCall
    /\ script_run = << >>
    /\ issued = << >>

\* The database as init_database leaves it and no script run yet.
AppIdle ==
    /\ patients = << >>
    /\ next_id = 1
    /\ logs = << >>
    /\ session_state = [s \in Sessions |-> << >>]
    /\ request = NoRequest
    /\ TraceIdle

\* The disclosure engine: a record as loaded from the store, any key
\* configuration.
Init ==
    /\ secrets_key \in {None, "K1"}
    /\ env_key \in {None, "K2"}
    /\ pc = "start"
    /\ patient_data \in Records
    /\ role = ""
    /\ view = NoView
    /\ cipher_calls = {}
    /\ CipherIdle /\ ContactIdle /\ DiagnosisIdle
    /\ patients = (patient_data.patient_id :> patient_data)
    /\ next_id = patient_data.patient_id + 1
    /\ logs = << >>
    /\ session_state = [s \in Sessions |-> << >>]
    /\ request = NoRequest
    /\ TraceIdle

\* The disclosure engine on the records of one patient: the views of two
\* records are compared, and records of different patients or dates never
\* have equal views.
InitOnePatient ==
    /\ Init
    /\ patient_data.patient_id = 1
    /\ patient_data.date_added = "2025-01-01 10:00:00"

InitCipher ==
    /\ secrets_key \in SecretsValues
    /\ env_key \in EnvValues
    /\ pc = "start"
    /\ data \in Plaintexts
    /\ encrypted = Return(Raw(""))
    /\ encrypted_data = Raw("")
    /\ decrypted = ""
    /\ ContactIdle /\ DiagnosisIdle /\ ViewIdle /\ AppIdle

InitContact ==
    /\ secrets_key = None /\ env_key = None
    /\ pc = "start"
    /\ contact \in ContactInputs
    /\ masked = ""
    /\ CipherIdle /\ DiagnosisIdle /\ ViewIdle /\ AppIdle

InitDiagnosis ==
    /\ secrets_key = None /\ env_key = None
    /\ pc = "start"
    /\ diagnosis \in DiagnosisInputs
    /\ category = ""
    /\ CipherIdle /\ ContactIdle /\ ViewIdle /\ AppIdle

(***************************************************************************)
(* Actions: one call of one function.                                      *)
(***************************************************************************)
\* encrypt_data(data)
EncryptData ==
    /\ pc = "start"
    /\ \E iv \in IVs : encrypted' = encrypt_data(data, iv)
    /\ pc' = "encrypted"
    /\ UNCHANGED << appVars, keyVars, data, encrypted_data, decrypted, contactVars,
                    diagnosisVars, viewVars >>

\* decrypt_data(encrypt_data(data)), when encrypt_data returned
DecryptEncrypted ==
    /\ pc = "encrypted"
    /\ encrypted.exc = ""
    /\ encrypted_data' = encrypted.val
    /\ decrypted' = decrypt_data(encrypted.val).val
    /\ pc' = "decrypted"
    /\ UNCHANGED << appVars, keyVars, data, encrypted, contactVars, diagnosisVars,
                    viewVars >>

\* decrypt_data(e) of a stored string e
DecryptStored ==
    /\ pc = "start"
    /\ \E e \in StoredValues :
          /\ encrypted_data' = e
          /\ decrypted' = decrypt_data(e).val
    /\ pc' = "loaded"
    /\ UNCHANGED << appVars, keyVars, data, encrypted, contactVars, diagnosisVars,
                    viewVars >>

\* anonymize_contact(contact)
AnonymizeContact ==
    /\ pc = "start"
    /\ masked' = anonymize_contact(contact)
    /\ pc' = "returned"
    /\ UNCHANGED << appVars, keyVars, cipherVars, contact, diagnosisVars, viewVars >>

\* anonymize_diagnosis(diagnosis)
AnonymizeDiagnosis ==
    /\ pc = "start"
    /\ category' = anonymize_diagnosis(diagnosis)
    /\ pc' = "returned"
    /\ UNCHANGED << appVars, keyVars, cipherVars, contactVars, diagnosis, viewVars >>

\* Variant of the call that builds the view in the dictionary it was given.
PreparePatientData_in_place ==
    /\ pc \in {"start", "returned"}
    /\ \E r \in Roles :
          LET result == prepare_patient_data_for_role(patient_data, r)
          IN  /\ role' = r
              /\ view' = result.view
              /\ cipher_calls' = result.calls
              /\ patient_data' = [patient_data EXCEPT
                                     !.name = Raw(result.view.name),
                                     !.contact = Raw(result.view.contact),
                                     !.diagnosis = Raw(result.view.diagnosis)]
    /\ pc' = "returned"
    /\ UNCHANGED << appVars, keyVars, cipherVars, contactVars, diagnosisVars >>

\* prepare_patient_data_for_role(patient_data, r), a first or a later call
\* on the record
PreparePatientData ==
    /\ pc \in {"start", "returned"}
    /\ \E r \in Roles :
          LET result == prepare_patient_data_for_role(patient_data, r)
          IN  /\ role' = r
              /\ view' = result.view
              /\ cipher_calls' = result.calls
    /\ pc' = "returned"
    /\ UNCHANGED << appVars, keyVars, cipherVars, contactVars, diagnosisVars,
                    patient_data >>

Next == PreparePatientData
NextCipher == EncryptData \/ DecryptEncrypted \/ DecryptStored
NextContact == AnonymizeContact
NextDiagnosis == AnonymizeDiagnosis

Spec == Init /\ [][Next]_vars
SpecOnePatient == InitOnePatient /\ [][Next]_vars
SpecCipher == InitCipher /\ [][NextCipher]_vars
SpecContact == InitContact /\ [][NextContact]_vars
SpecDiagnosis == InitDiagnosis /\ [][NextDiagnosis]_vars

(***************************************************************************)
(* The application: the users, patients and logs tables, the session and   *)
(* the pages.  One action is one script run of a session.                  *)
(***************************************************************************)
\* The encrypted columns of the patients table.
SensitiveColumns == {"name", "contact", "diagnosis"}

\* hashlib.sha256(password).hexdigest(): kept symbolic, one digest per
\* password.
hash_password(password) == "sha256(" \o password \o ")"

\* The users table as init_database seeds it.
Users ==
    { [user_id |-> 1, username |-> "admin",
       password |-> hash_password("admin123"), role |-> "admin"],
      [user_id |-> 2, username |-> "dr_bob",
       password |-> hash_password("doc123"), role |-> "doctor"],
      [user_id |-> 3, username |-> "alice_recep",
       password |-> hash_password("rec123"), role |-> "receptionist"] }

\* (None, None, None): no user.
NoUser == [user_id |-> 0, username |-> None, role |-> None]

\* Variant of authenticate_user whose query is built by pasting the
\* username into the SQL text: the quote in the username ends the string
\* literal, and the OR that follows makes the WHERE clause true of admin's
\* row.
authenticate_user_interpolated(username, password_hash) ==
    LET result == { u \in Users :
                      \/ u.username = username /\ u.password = password_hash
                      \/ username = "admin' OR '1'='1" /\ u.username = "admin" }
    IN  IF result # {}
            THEN LET u == CHOOSE u \in result : TRUE
                 IN  [user_id |-> u.user_id, username |-> u.username, role |-> u.role]
        ELSE NoUser

\* authenticate_user: the row with that username and password hash.
authenticate_user(username, password_hash) ==
    LET result == { u \in Users : u.username = username /\ u.password = password_hash }
    IN  IF result # {}
            THEN LET u == CHOOSE u \in result : TRUE
                 IN  [user_id |-> u.user_id, username |-> u.username, role |-> u.role]
        ELSE NoUser

\* The values initialize_session_state gives the keys that are missing.
SessionDefaults ==
    [authenticated |-> FALSE, user_id |-> 0, username |-> None, role |-> None]

initialize_session_state(ss) ==
    [k \in DOMAIN SessionDefaults \cup DOMAIN ss |->
        IF k \in DOMAIN ss THEN ss[k] ELSE SessionDefaults[k]]

login_user(ss, user_id, username, r) ==
    [authenticated |-> TRUE, user_id |-> user_id, username |-> username,
     role |-> r] @@ ss

\* Variant of logout_user that deletes the authenticated flag only.
logout_user_flag_only(ss) == [k \in DOMAIN ss \ {"authenticated"} |-> ss[k]]

\* logout_user deletes every key.
logout_user(ss) == [k \in {} |-> ss[k]]

is_authenticated(ss) ==
    IF "authenticated" \in DOMAIN ss THEN ss["authenticated"] ELSE FALSE

get_current_user(ss) ==
    IF is_authenticated(ss)
        THEN [user_id |-> ss["user_id"], username |-> ss["username"],
              role |-> ss["role"]]
    ELSE NoUser

\* Variant of the menu that offers the doctor the delete page too.
menu_options_doctor_deletes(r) ==
    CASE r = "admin" ->
            {"Dashboard", "View Patients", "Add Patient", "Edit Patient",
             "Delete Patient", "Audit Logs", "Activity Analytics", "Data Export"}
      [] r = "doctor" -> {"Dashboard", "View Patients (Anonymized)", "Delete Patient"}
      [] r = "receptionist" -> {"Dashboard", "Add Patient", "Edit Patient"}
      [] OTHER -> {}

\* The navigation choices show_dashboard offers a role.
menu_options(r) ==
    CASE r = "admin" ->
            {"Dashboard", "View Patients", "Add Patient", "Edit Patient",
             "Delete Patient", "Audit Logs", "Activity Analytics", "Data Export"}
      [] r = "doctor" -> {"Dashboard", "View Patients (Anonymized)"}
      [] r = "receptionist" -> {"Dashboard", "Add Patient", "Edit Patient"}
      [] OTHER -> {}

\* log_action: one INSERT into logs; when it fails (ok = FALSE) the
\* exception is printed and nothing else happens.
log_action(user_id, r, action, details, ok) ==
    IF ok
        THEN Append(logs, [user_id |-> user_id, role |-> r, action |-> action,
                           details |-> details])
    ELSE logs

\* DEFAULT CURRENT_TIMESTAMP of patients.date_added.
CURRENT_TIMESTAMP == "2025-01-01 10:00:00"

\* Variant of add_patient for a patient_id column declared without
\* AUTOINCREMENT: the new rowid is one more than the largest stored one.
add_patient_reusing_rowid(name_encrypted, contact_encrypted, diagnosis_encrypted, user_id, r, ok, log_ok) ==
    IF ok
        THEN LET patient_id ==
                     IF DOMAIN patients = {} THEN 1
                     ELSE 1 + CHOOSE i \in DOMAIN patients :
                                 \A j \in DOMAIN patients : j <= i
             IN  [ret |-> "True",
                  patient_id |-> patient_id,
                  patients |-> (patient_id :>
                                  [patient_id |-> patient_id,
                                   name |-> name_encrypted,
                                   contact |-> contact_encrypted,
                                   diagnosis |-> diagnosis_encrypted,
                                   date_added |-> CURRENT_TIMESTAMP]) @@ patients,
                  next_id |-> next_id + 1,
                  logs |-> log_action(user_id, r, "ADD_PATIENT",
                                      "Added patient ID: " \o IntToStr(patient_id),
                                      log_ok),
                  logged |-> {"ADD_PATIENT"}]
    ELSE [ret |-> "False", patient_id |-> 0, patients |-> patients,
          next_id |-> next_id, logs |-> logs, logged |-> {}]

\* add_patient: INSERT and commit (failing as a whole when ok = FALSE), then
\* log_action.
add_patient(name_encrypted, contact_encrypted, diagnosis_encrypted, user_id, r, ok, log_ok) ==
    IF ok
        THEN LET patient_id == next_id
             IN  [ret |-> "True",
                  patient_id |-> patient_id,
                  patients |-> (patient_id :>
                                  [patient_id |-> patient_id,
                                   name |-> name_encrypted,
                                   contact |-> contact_encrypted,
                                   diagnosis |-> diagnosis_encrypted,
                                   date_added |-> CURRENT_TIMESTAMP]) @@ patients,
                  next_id |-> next_id + 1,
                  logs |-> log_action(user_id, r, "ADD_PATIENT",
                                      "Added patient ID: " \o IntToStr(patient_id),
                                      log_ok),
                  logged |-> {"ADD_PATIENT"}]
    ELSE [ret |-> "False", patient_id |-> 0, patients |-> patients,
          next_id |-> next_id, logs |-> logs, logged |-> {}]

\* Variant of update_patient whose UPDATE sets the name column only.
update_patient_name_only(patient_id, name_encrypted, contact_encrypted, diagnosis_encrypted, user_id, r, ok, log_ok) ==
    IF ok
        THEN [ret |-> "True",
              patients |-> [id \in DOMAIN patients |->
                              IF id = patient_id
                                  THEN [patients[id] EXCEPT !.name = name_encrypted]
                              ELSE patients[id]],
              logs |-> log_action(user_id, r, "UPDATE_PATIENT",
                                  "Updated patient ID: " \o IntToStr(patient_id),
                                  log_ok),
              logged |-> {"UPDATE_PATIENT"}]
    ELSE [ret |-> "False", patients |-> patients, logs |-> logs, logged |-> {}]

\* update_patient: UPDATE ... WHERE patient_id = ?, commit, log_action.
update_patient(patient_id, name_encrypted, contact_encrypted, diagnosis_encrypted, user_id, r, ok, log_ok) ==
    IF ok
        THEN [ret |-> "True",
              patients |-> [id \in DOMAIN patients |->
                              IF id = patient_id
                                  THEN [patients[id] EXCEPT
                                           !.name = name_encrypted,
                                           !.contact = contact_encrypted,
                                           !.diagnosis = diagnosis_encrypted]
                              ELSE patients[id]],
              logs |-> log_action(user_id, r, "UPDATE_PATIENT",
                                  "Updated patient ID: " \o IntToStr(patient_id),
                                  log_ok),
              logged |-> {"UPDATE_PATIENT"}]
    ELSE [ret |-> "False", patients |-> patients, logs |-> logs, logged |-> {}]

\* Variant of delete_patient whose DELETE takes effect although the commit
\* raised.
delete_patient_committing_on_failure(patient_id, user_id, r, ok, log_ok) ==
    [ret |-> IF ok THEN "True" ELSE "False",
     patients |-> [id \in DOMAIN patients \ {patient_id} |-> patients[id]],
     logs |-> IF ok
                  THEN log_action(user_id, r, "DELETE_PATIENT",
                                  "Deleted patient ID: " \o IntToStr(patient_id),
                                  log_ok)
              ELSE logs,
     logged |-> IF ok THEN {"DELETE_PATIENT"} ELSE {}]

\* Variant of delete_patient that also deletes the log rows whose details
\* name the patient.
delete_patient_purging_logs(patient_id, user_id, r, ok, log_ok) ==
    IF ok
        THEN [ret |-> "True",
              patients |-> [id \in DOMAIN patients \ {patient_id} |-> patients[id]],
              logs |-> SelectSeq(
                          log_action(user_id, r, "DELETE_PATIENT",
                                     "Deleted patient ID: " \o IntToStr(patient_id),
                                     log_ok),
                          LAMBDA l : l.action = "DELETE_PATIENT"
                                       \/ ~Contains(l.details, "ID: " \o IntToStr(patient_id))),
              logged |-> {"DELETE_PATIENT"}]
    ELSE [ret |-> "False", patients |-> patients, logs |-> logs, logged |-> {}]

\* delete_patient: DELETE ... WHERE patient_id = ?, commit, log_action.
delete_patient(patient_id, user_id, r, ok, log_ok) ==
    IF ok
        THEN [ret |-> "True",
              patients |-> [id \in DOMAIN patients \ {patient_id} |-> patients[id]],
              logs |-> log_action(user_id, r, "DELETE_PATIENT",
                                  "Deleted patient ID: " \o IntToStr(patient_id),
                                  log_ok),
              logged |-> {"DELETE_PATIENT"}]
    ELSE [ret |-> "False", patients |-> patients, logs |-> logs, logged |-> {}]

\* The rows with the given ids, ORDER BY patient_id DESC.
RECURSIVE RowsDesc(_)
RowsDesc(ids) ==
    IF ids = {} THEN << >>
    ELSE LET top == CHOOSE i \in ids : \A j \in ids : j <= i
         IN  << patients[top] >> \o RowsDesc(ids \ {top})

get_all_patients == RowsDesc(DOMAIN patients)

\* get_patient_by_id: the row, or None.
get_patient_by_id(patient_id) ==
    IF patient_id \in DOMAIN patients THEN patients[patient_id] ELSE NoRecord

\* The first n rows at most: LIMIT n.
Limit(rows, n) == SubSeq(rows, 1, IF Len(rows) < n THEN Len(rows) ELSE n)

\* ORDER BY timestamp DESC: the latest row first.
Latest(rows) == [i \in 1..Len(rows) |-> rows[Len(rows) + 1 - i]]

get_all_logs(limit) == Limit(Latest(logs), limit)

get_logs_by_action(action, limit) ==
    Limit(Latest(SelectSeq(logs, LAMBDA l : l.action = action)), limit)

\* Variant of the validation that looks at the name only.
all_filled_name_only(name, contact_number, diagnosis_text) == name # ""

\* all([name, contact, diagnosis]): the validation of the two forms.
all_filled(name, contact_number, diagnosis_text) ==
    name # "" /\ contact_number # "" /\ diagnosis_text # ""

\* pd.to_datetime(date_added).strftime('%Y-%m-%d %H:%M:%S') of the export,
\* which keeps what it cannot parse.
format_date(d) ==
    IF Len(d) = 19 THEN d
    ELSE IF Len(d) = 10 THEN d \o " 00:00:00"
    ELSE d

\* What the users type into the forms.
LoginNames == {"", "admin", "dr_bob", "alice_recep"}
LoginPasswords == {"", "admin123", "doc123", "rec123"}
FormNames == {"", "John Doe"}
FormContacts == {"", "123-456-7890"}
FormDiagnoses == {"", "Fever and flu"}
ActionFilters == {"All", "LOGIN", "LOGOUT", "ADD_PATIENT", "UPDATE_PATIENT",
                  "DELETE_PATIENT", "VIEW_PATIENTS", "EXPORT_DATA"}

\* The application on the database init_database creates.  The three
\* encrypt_data calls of one form submission take the same draw iv: they
\* encrypt different columns, whose tokens are never compared.
InitApp ==
    /\ secrets_key = None
    /\ env_key \in {None, "K1"}
    /\ pc = "start"
    /\ CipherIdle /\ ContactIdle /\ DiagnosisIdle /\ ViewIdle /\ AppIdle

\* The session state of s once the script run has called
\* initialize_session_state.
Session(s) == initialize_session_state(session_state[s])

\* The script run of session s reaches the page choice of the dashboard.
Page(s, choice) ==
    /\ is_authenticated(Session(s))
    /\ choice \in menu_options(get_current_user(Session(s)).role)

\* What a script run of session s rendered and called: the role tag it
\* gave prepare_patient_data_for_role and the patients whose view it
\* rendered (views, a sequence of views), the columns it passed to
\* decrypt_data itself, the action kinds it called log_action with, and
\* the database call it made with its result.
Req(s, page, r, views, decs, logged, call, ret, patient_id) ==
    [session |-> s, page |-> page,
     view_role |-> IF views = << >> THEN "" ELSE r,
     viewed |-> { views[i].patient_id : i \in 1..Len(views) },
     decrypted |-> decs, logged |-> logged, call |-> call, ret |-> ret,
     patient_id |-> patient_id]

\* The views of the rows for the role tag r.
ViewsFor(rows, r) ==
    [i \in 1..Len(rows) |-> prepare_patient_data_for_role(rows[i], r).view]

\* show_login_page with what the user typed and whether the form was
\* submitted
show_login_page(s, submit, username, password) ==
    LET user_data == authenticate_user(username, hash_password(password))
    IN  IF submit /\ username # "" /\ password # "" /\ user_data # NoUser
            THEN \E log_ok \in BOOLEAN :
                 /\ session_state' =
                        [session_state EXCEPT ![s] =
                            login_user(Session(s), user_data.user_id,
                                       user_data.username, user_data.role)]
                 /\ logs' = log_action(user_data.user_id, user_data.role, "LOGIN",
                                       "User " \o user_data.username \o " logged in",
                                       log_ok)
                 /\ request' = Req(s, "Login", "", << >>, {}, {"LOGIN"}, "", "", 0)
        ELSE /\ session_state' = [session_state EXCEPT ![s] = Session(s)]
             /\ logs' = logs
             /\ request' = Req(s, "Login", "", << >>, {}, {}, "", "", 0)

\* show_login_page
ShowLoginPage(s) ==
    /\ ~is_authenticated(Session(s))
    /\ Len(logs) < MaxLogs
    /\ \E submit \in BOOLEAN :
       \E username \in IF submit THEN LoginNames ELSE {""},
          password \in IF submit THEN LoginPasswords ELSE {""} :
          show_login_page(s, submit, username, password)
    /\ UNCHANGED << patients, next_id, keyVars, engineVars, traceVars >>

\* show_dashboard: the logout button
Logout(s) ==
    /\ is_authenticated(Session(s))
    /\ Len(logs) < MaxLogs
    /\ \E log_ok \in BOOLEAN :
          LET u == get_current_user(Session(s))
          IN  logs' = log_action(u.user_id, u.role, "LOGOUT",
                                 "User " \o u.username \o " logged out", log_ok)
    /\ session_state' = [session_state EXCEPT ![s] =
                            initialize_session_state(logout_user(Session(s)))]
    /\ request' = Req(s, "Logout", "", << >>, {}, {"LOGOUT"}, "", "", 0)
    /\ UNCHANGED << patients, next_id, keyVars, engineVars, traceVars >>

\* show_dashboard_home
ShowDashboardHome(s) ==
    /\ Page(s, "Dashboard")
    /\ request' = Req(s, "Dashboard", "", << >>, {}, {}, "", "", 0)
    /\ UNCHANGED << storeVars, session_state, keyVars, engineVars, traceVars >>

\* show_patients_page
ShowPatientsPage(s) ==
    /\ Page(s, "View Patients") \/ Page(s, "View Patients (Anonymized)")
    /\ Len(logs) < MaxLogs
    /\ LET u == get_current_user(Session(s))
       IN  \E view_anonymized \in IF u.role = "admin" THEN BOOLEAN ELSE {FALSE},
              log_ok \in BOOLEAN :
              LET rows == get_all_patients
                  tag == IF u.role = "admin" /\ view_anonymized THEN "doctor" ELSE u.role
                  view_mode == IF u.role = "admin" /\ view_anonymized
                                   THEN "anonymized" ELSE u.role
              IN  IF rows = << >>
                      THEN /\ logs' = logs
                           /\ request' = Req(s, "View Patients", "", << >>, {}, {}, "", "", 0)
                  ELSE /\ logs' = log_action(u.user_id, u.role, "VIEW_PATIENTS",
                                     "Viewed " \o IntToStr(Len(rows))
                                         \o " patient records (" \o view_mode \o " mode)",
                                     log_ok)
                       /\ request' = Req(s, "View Patients", tag, ViewsFor(rows, tag), {},
                                         {"VIEW_PATIENTS"}, "", "", 0)
    /\ UNCHANGED << patients, next_id, session_state, keyVars, engineVars, traceVars >>

\* show_add_patient_page
ShowAddPatientPage(s) ==
    /\ Page(s, "Add Patient")
    /\ Len(logs) < MaxLogs
    /\ next_id <= MaxPatients
    /\ \E submitted \in BOOLEAN :
       \E name \in IF submitted THEN FormNames ELSE {""},
          contact_number \in IF submitted THEN FormContacts ELSE {""},
          diagnosis_text \in IF submitted THEN FormDiagnoses ELSE {""},
          consent \in IF submitted THEN BOOLEAN ELSE {FALSE} :
          IF ~submitted \/ ~all_filled(name, contact_number, diagnosis_text) \/ ~consent
              THEN /\ UNCHANGED storeVars
                   /\ request' = Req(s, "Add Patient", "", << >>, {}, {}, "", "", 0)
          ELSE \E iv \in IVs, ok \in BOOLEAN :
               \E log_ok \in IF ok THEN BOOLEAN ELSE {FALSE} :
                  LET u == get_current_user(Session(s))
                      name_encrypted == encrypt_data(name, iv)
                      contact_encrypted == encrypt_data(contact_number, iv)
                      diagnosis_encrypted == encrypt_data(diagnosis_text, iv)
                  IN  IF \/ name_encrypted.exc # ""
                         \/ contact_encrypted.exc # ""
                         \/ diagnosis_encrypted.exc # ""
                          THEN /\ UNCHANGED storeVars
                               /\ request' = Req(s, "Add Patient", "", << >>, {}, {}, "", "", 0)
                      ELSE LET success == add_patient(name_encrypted.val,
                                              contact_encrypted.val,
                                              diagnosis_encrypted.val,
                                              u.user_id, u.role, ok, log_ok)
                           IN  /\ patients' = success.patients
                               /\ next_id' = success.next_id
                               /\ logs' = success.logs
                               /\ request' = Req(s, "Add Patient", "", << >>, {},
                                                 success.logged, "add_patient",
                                                 success.ret, success.patient_id)
    /\ UNCHANGED << session_state, keyVars, engineVars, traceVars >>

\* show_edit_patient_page
ShowEditPatientPage(s) ==
    /\ Page(s, "Edit Patient")
    /\ Len(logs) < MaxLogs
    /\ IF get_all_patients = << >>
           THEN /\ UNCHANGED storeVars
                /\ request' = Req(s, "Edit Patient", "", << >>, {}, {}, "", "", 0)
       ELSE \E patient_id \in DOMAIN patients :
           LET u == get_current_user(Session(s))
               patient == get_patient_by_id(patient_id)
               current_name == decrypt_data(patient.name).val
               current_contact == decrypt_data(patient.contact).val
               current_diagnosis == decrypt_data(patient.diagnosis).val
               views == IF u.role = "admin" THEN << >>
                        ELSE << prepare_patient_data_for_role(patient, u.role).view >>
               decs == IF u.role = "admin"
                           THEN {patient_id} \X SensitiveColumns
                       ELSE {<< patient_id, "diagnosis" >>}
           IN  \E submitted \in BOOLEAN :
               \E name \in IF ~submitted THEN {""}
                            ELSE FormNames \cup
                                 (IF u.role = "admin" THEN {current_name} ELSE {}),
                  contact_number \in IF ~submitted THEN {""}
                                      ELSE FormContacts \cup
                                           (IF u.role = "admin" THEN {current_contact}
                                            ELSE {}),
                  diagnosis_text \in IF u.role = "admin"
                                          THEN (IF ~submitted THEN {""}
                                                ELSE FormDiagnoses \cup {current_diagnosis})
                                      ELSE {current_diagnosis} :
                  IF ~submitted \/ ~all_filled(name, contact_number, diagnosis_text)
                      THEN /\ UNCHANGED storeVars
                           /\ request' = Req(s, "Edit Patient", u.role, views, decs, {},
                                             "", "", 0)
                  ELSE \E iv \in IVs, ok \in BOOLEAN :
                       \E log_ok \in IF ok THEN BOOLEAN ELSE {FALSE} :
                          LET name_encrypted == encrypt_data(name, iv)
                              contact_encrypted == encrypt_data(contact_number, iv)
                              diagnosis_encrypted == encrypt_data(diagnosis_text, iv)
                          IN  IF \/ name_encrypted.exc # ""
                                 \/ contact_encrypted.exc # ""
                                 \/ diagnosis_encrypted.exc # ""
                                  THEN /\ UNCHANGED storeVars
                                       /\ request' = Req(s, "Edit Patient", u.role, views,
                                                         decs, {}, "", "", 0)
                              ELSE LET success == update_patient(patient_id,
                                                      name_encrypted.val,
                                                      contact_encrypted.val,
                                                      diagnosis_encrypted.val,
                                                      u.user_id, u.role, ok, log_ok)
                                   IN  /\ patients' = success.patients
                                       /\ next_id' = next_id
                                       /\ logs' = success.logs
                                       /\ request' = Req(s, "Edit Patient", u.role, views, decs,
                                                         success.logged,
                                                         "update_patient", success.ret,
                                                         patient_id)
    /\ UNCHANGED << session_state, keyVars, engineVars, traceVars >>

\* show_delete_patient_page
ShowDeletePatientPage(s) ==
    /\ Page(s, "Delete Patient")
    /\ Len(logs) < MaxLogs
    /\ IF get_all_patients = << >>
           THEN /\ UNCHANGED storeVars
                /\ request' = Req(s, "Delete Patient", "", << >>, {}, {}, "", "", 0)
       ELSE \E selected_id \in DOMAIN patients, pressed \in BOOLEAN :
            \E ok \in IF pressed THEN BOOLEAN ELSE {FALSE} :
            \E log_ok \in IF ok THEN BOOLEAN ELSE {FALSE} :
               LET u == get_current_user(Session(s))
                   display_data == ViewsFor(get_all_patients, u.role)
               IN  IF pressed
                       THEN LET success == delete_patient(selected_id, u.user_id,
                                                          u.role, ok, log_ok)
                            IN  /\ patients' = success.patients
                                /\ next_id' = next_id
                                /\ logs' = success.logs
                                /\ request' = Req(s, "Delete Patient", u.role, display_data, {},
                                                  success.logged, "delete_patient",
                                                  success.ret, selected_id)
                   ELSE /\ UNCHANGED storeVars
                        /\ request' = Req(s, "Delete Patient", u.role, display_data, {},
                                          {}, "", "", 0)
    /\ UNCHANGED << session_state, keyVars, engineVars, traceVars >>

\* show_audit_logs_page: logs is what the chosen filter and limit select
ShowAuditLogsPage(s) ==
    /\ Page(s, "Audit Logs")
    /\ Len(logs) < MaxLogs
    /\ \E shown \in { IF action_filter = "All" THEN get_all_logs(100)
                       ELSE get_logs_by_action(action_filter, 100) :
                       action_filter \in ActionFilters } :
          LET u == get_current_user(Session(s))
          IN  IF shown # << >>
                  THEN \E log_ok \in BOOLEAN :
                       /\ logs' = log_action(u.user_id, u.role, "VIEW_LOGS",
                                      "Viewed " \o IntToStr(Len(shown)) \o " audit logs",
                                      log_ok)
                       /\ request' = Req(s, "Audit Logs", "", << >>, {}, {"VIEW_LOGS"},
                                         "", "", 0)
              ELSE /\ logs' = logs
                   /\ request' = Req(s, "Audit Logs", "", << >>, {}, {}, "", "", 0)
    /\ UNCHANGED << patients, next_id, session_state, keyVars, engineVars, traceVars >>

\* show_analytics_page
ShowAnalyticsPage(s) ==
    /\ Page(s, "Activity Analytics")
    /\ request' = Req(s, "Activity Analytics", "", << >>, {}, {}, "", "", 0)
    /\ UNCHANGED << storeVars, session_state, keyVars, engineVars, traceVars >>

\* show_export_page
ShowExportPage(s) ==
    /\ Page(s, "Data Export")
    /\ Len(logs) < MaxLogs
    /\ \E log_ok \in BOOLEAN :
          LET u == get_current_user(Session(s))
              processed == ViewsFor(get_all_patients, u.role)
              display_data == [i \in 1..Len(processed) |->
                                  [processed[i] EXCEPT !.date_added = format_date(@)]]
          IN  IF get_all_logs(1000) # << >>
                  THEN /\ logs' = log_action(u.user_id, u.role, "EXPORT_DATA",
                                             "Exported audit logs", log_ok)
                       /\ request' = Req(s, "Data Export", u.role, display_data, {},
                                         {"EXPORT_DATA"}, "", "", 0)
              ELSE /\ logs' = logs
                   /\ request' = Req(s, "Data Export", u.role, display_data, {}, {},
                                     "", "", 0)
    /\ UNCHANGED << patients, next_id, session_state, keyVars, engineVars, traceVars >>

NextApp ==
    \E s \in Sessions :
        \/ ShowLoginPage(s)
        \/ Logout(s)
        \/ ShowDashboardHome(s)
        \/ ShowPatientsPage(s)
        \/ ShowAddPatientPage(s)
        \/ ShowEditPatientPage(s)
        \/ ShowDeletePatientPage(s)
        \/ ShowAuditLogsPage(s)
        \/ ShowAnalyticsPage(s)
        \/ ShowExportPage(s)

SpecApp == InitApp /\ [][NextApp]_vars

\* Rows the patients table may already hold when the application starts:
\* written under the configured key, or with a diagnosis column that is no
\* token of it (damaged, or written under another key).
StoredRows ==
    { [patient_id |-> 1,
       name |-> Token("K1", 1, "John Doe"),
       contact |-> Token("K1", 1, "123-456-7890"),
       diagnosis |-> d,
       date_added |-> CURRENT_TIMESTAMP] :
      d \in {Token("K1", 1, "Fever and flu"), Raw("garbage"),
             Token("K2", 1, "Fever and flu")} }

\* The application started on a database that is empty or holds one such
\* row.
InitAppStored ==
    /\ secrets_key = None
    /\ env_key = "K1"
    /\ pc = "start"
    /\ CipherIdle /\ ContactIdle /\ DiagnosisIdle /\ ViewIdle
    /\ patients \in {<< >>} \cup { (row.patient_id :> row) : row \in StoredRows }
    /\ next_id = IF patients = << >> THEN 1 ELSE 2
    /\ logs = << >>
    /\ session_state = [s \in Sessions |-> << >>]
    /\ request = NoRequest
    /\ TraceIdle

SpecAppStored == InitAppStored /\ [][NextApp]_vars

(***************************************************************************)
(* The database functions called directly, one call after the other, as    *)
(* tests/test_database.py calls them.                                      *)
(***************************************************************************)
\* get_patient_count: SELECT COUNT(*) FROM patients.
get_patient_count == Cardinality(DOMAIN patients)

\* The encrypted column values a caller passes: opaque strings to the
\* database functions.
EncryptedRows ==
    { [name |-> Token("K1", 1, "John Doe"),
       contact |-> Token("K1", 1, "123-456-7890"),
       diagnosis |-> Token("K1", 1, "Fever and flu")],
      [name |-> Token("K1", 2, "Jane Roe"),
       contact |-> Token("K1", 2, "555-0100"),
       diagnosis |-> Token("K1", 2, "High blood sugar")] }

\* The patient ids a caller passes: those the table has handed out or will.
StoreIds == 1..(MaxPatients + 1)

\* The user on whose behalf the functions are called.
StoreCaller == CHOOSE u \in Users : u.role = "admin"

InitStore ==
    /\ secrets_key = None
    /\ env_key = "K1"
    /\ pc = "start"
    /\ CipherIdle /\ ContactIdle /\ DiagnosisIdle /\ ViewIdle /\ AppIdle

\* add_patient(name_encrypted, contact_encrypted, diagnosis_encrypted,
\*             user_id, role)
AddPatient ==
    /\ Len(logs) < MaxLogs
    /\ next_id \in StoreIds
    /\ \E row \in EncryptedRows, ok \in BOOLEAN :
       \E log_ok \in IF ok THEN BOOLEAN ELSE {FALSE} :
          LET success == add_patient(row.name, row.contact, row.diagnosis,
                                     StoreCaller.user_id, StoreCaller.role, ok, log_ok)
          IN  /\ patients' = success.patients
              /\ next_id' = success.next_id
              /\ logs' = success.logs
              /\ last_call' = [fn |-> "add_patient",
                               args |-> [patient_id |-> 0, name |-> row.name,
                                         contact |-> row.contact,
                                         diagnosis |-> row.diagnosis],
                               ret |-> success.ret]
    /\ UNCHANGED << session_state, request, script_run, issued, keyVars, engineVars >>

\* update_patient(patient_id, name_encrypted, contact_encrypted,
\*                diagnosis_encrypted, user_id, role)
UpdatePatient ==
    /\ Len(logs) < MaxLogs
    /\ \E patient_id \in StoreIds, row \in EncryptedRows, ok \in BOOLEAN :
       \E log_ok \in IF ok THEN BOOLEAN ELSE {FALSE} :
          LET success == update_patient(patient_id, row.name, row.contact,
                                        row.diagnosis, StoreCaller.user_id,
                                        StoreCaller.role, ok, log_ok)
          IN  /\ patients' = success.patients
              /\ logs' = success.logs
              /\ last_call' = [fn |-> "update_patient",
                               args |-> [patient_id |-> patient_id, name |-> row.name,
                                         contact |-> row.contact,
                                         diagnosis |-> row.diagnosis],
                               ret |-> success.ret]
    /\ UNCHANGED << next_id, session_state, request, script_run, issued, keyVars,
                    engineVars >>

\* delete_patient(patient_id, user_id, role)
DeletePatient ==
    /\ Len(logs) < MaxLogs
    /\ \E patient_id \in StoreIds, ok \in BOOLEAN :
       \E log_ok \in IF ok THEN BOOLEAN ELSE {FALSE} :
          LET success == delete_patient(patient_id, StoreCaller.user_id,
                                        StoreCaller.role, ok, log_ok)
          IN  /\ patients' = success.patients
              /\ logs' = success.logs
              /\ last_call' = [fn |-> "delete_patient",
                               args |-> [patient_id |-> patient_id, name |-> Raw(""),
                                         contact |-> Raw(""), diagnosis |-> Raw("")],
                               ret |-> success.ret]
    /\ UNCHANGED << next_id, session_state, request, script_run, issued, keyVars,
                    engineVars >>

NextStore == AddPatient \/ UpdatePatient \/ DeletePatient

SpecStore == InitStore /\ [][NextStore]_vars

(***************************************************************************)
(* The session functions of auth.py called directly on a session, as       *)
(* tests/test_auth.py calls them, between the starts of script runs.       *)
(***************************************************************************)
\* What login_user may be given: any id, name and role string.
LoginUserIds == {1, 2, 3}
LoginUserNames == {"admin", "dr_bob", "alice_recep"}

InitSession ==
    /\ secrets_key = None
    /\ env_key = None
    /\ pc = "start"
    /\ CipherIdle /\ ContactIdle /\ DiagnosisIdle /\ ViewIdle /\ AppIdle

\* The start of a script run: initialize_session_state(), then the
\* app_start_time key if it is missing.
ScriptRunStart(s) ==
    /\ session_state' =
          [session_state EXCEPT ![s] =
              LET ss == initialize_session_state(session_state[s])
              IN  IF "app_start_time" \in DOMAIN ss THEN ss
                  ELSE [k \in DOMAIN ss \cup {"app_start_time"} |->
                           IF k = "app_start_time" THEN "time.time()" ELSE ss[k]]]
    /\ UNCHANGED << storeVars, request, traceVars, keyVars, engineVars >>

\* login_user(user_id, username, role)
LoginUser(s) ==
    /\ \E user_id \in LoginUserIds, username \in LoginUserNames, r \in Roles :
          /\ session_state' = [session_state EXCEPT ![s] =
                                  login_user(session_state[s], user_id, username, r)]
          /\ last_call' = [fn |-> "login_user",
                           args |-> [user_id |-> user_id, username |-> username,
                                     role |-> r],
                           ret |-> ""]
    /\ UNCHANGED << storeVars, request, script_run, issued, keyVars, engineVars >>

\* logout_user()
LogoutUser(s) ==
    /\ session_state' = [session_state EXCEPT ![s] = logout_user(session_state[s])]
    /\ last_call' = [fn |-> "logout_user", args |-> NoUser, ret |-> ""]
    /\ UNCHANGED << storeVars, request, script_run, issued, keyVars, engineVars >>

NextSession ==
    \E s \in Sessions : ScriptRunStart(s) \/ LoginUser(s) \/ LogoutUser(s)

SpecSession == InitSession /\ [][NextSession]_vars

(***************************************************************************)
(* Login attempts: the login page submitted with any credentials, and the  *)
(* logout button.                                                          *)
(***************************************************************************)
\* What is typed into the login form: the seeded credentials, a user and
\* a password that do not exist, and a username that carries SQL text.
AttemptNames == LoginNames \cup {"nonexistent", "admin' OR '1'='1"}
AttemptPasswords == LoginPasswords \cup {"wrongpass"}

\* show_login_page, the form submitted
LoginAttempt(s) ==
    /\ ~is_authenticated(Session(s))
    /\ Len(logs) < MaxLogs
    /\ \E username \in AttemptNames, password \in AttemptPasswords :
          /\ show_login_page(s, TRUE, username, password)
          /\ last_call' = [fn |-> "show_login_page",
                           args |-> [username |-> username, password |-> password],
                           ret |-> ""]
    /\ UNCHANGED << patients, next_id, keyVars, engineVars, script_run, issued >>

NextLogin == \E s \in Sessions : LoginAttempt(s) \/ Logout(s)

SpecLogin == InitApp /\ [][NextLogin]_vars

(***************************************************************************)
(* encrypt_data called again and again in one process.  Fernet.encrypt     *)
(* reads the clock and draws os.urandom(16): the draw of a call is one no  *)
(* earlier call has made.                                                  *)
(***************************************************************************)
\* The draws no encrypt_data call has made yet.
FreshIVs == IVs \ { issued[i].iv : i \in 1..Len(issued) }

InitFresh ==
    /\ secrets_key \in {None, "K1"}
    /\ env_key \in {None, "K2"}
    /\ pc = "start"
    /\ CipherIdle /\ ContactIdle /\ DiagnosisIdle /\ ViewIdle /\ AppIdle

\* encrypt_data(d), a first or a later call; an empty d returns before the
\* cipher and makes no draw.
EncryptFresh ==
    /\ Len(issued) < MaxIV
    /\ \E d \in Plaintexts, iv \in FreshIVs :
          LET result == encrypt_data(d, iv)
          IN  /\ data' = d
              /\ encrypted' = result
              /\ issued' = IF result.exc # "" THEN issued
                           ELSE Append(issued, [data |-> d,
                                                iv |-> IF d = "" THEN 0 ELSE iv,
                                                token |-> result.val])
    /\ pc' = "encrypted"
    /\ UNCHANGED << storeVars, session_state, request, last_call, script_run,
                    keyVars, encrypted_data, decrypted, contactVars, diagnosisVars,
                    viewVars >>

NextFresh == EncryptFresh

SpecFresh == InitFresh /\ [][NextFresh]_vars

(***************************************************************************)
(* Two browser sessions at once.  Streamlit runs the script of each        *)
(* session in a thread of its own, so the database calls of two script     *)
(* runs interleave: a run of the edit or delete page reads the table, and  *)
(* writes in a later step what it decided on that reading.                 *)
(***************************************************************************)
Browsers == {"s1", "s2"}

\* The local variables of a script run between its read and its write:
\* the page, the selected id and the row get_patient_by_id returned.
NoRun == [page |-> "", patient_id |-> 0, patient |-> NoRecord]

\* What is typed into the forms of the two sessions.
StaffNames == {"admin", "alice_recep"}
StaffPasswords == {"admin123", "rec123"}
EditDiagnoses == FormDiagnoses \cup {"High blood sugar"}

InitConcurrent ==
    /\ secrets_key = None
    /\ env_key = "K1"
    /\ pc = "start"
    /\ CipherIdle /\ ContactIdle /\ DiagnosisIdle /\ ViewIdle
    /\ patients = << >>
    /\ next_id = 1
    /\ logs = << >>
    /\ session_state = [s \in Browsers |-> << >>]
    /\ request = NoRequest
    /\ last_call = NoCall
    /\ script_run = [s \in Browsers |-> NoRun]
    /\ issued = << >>

\* No script run of session s is between its read and its write.
Idle(s) == script_run[s] = NoRun

\* show_login_page, submitted by a member of the staff
StaffLogin(s) ==
    /\ Idle(s)
    /\ ~is_authenticated(Session(s))
    /\ Len(logs) < MaxLogs
    /\ \E username \in StaffNames, password \in StaffPasswords :
          show_login_page(s, TRUE, username, password)
    /\ UNCHANGED << patients, next_id, keyVars, engineVars, traceVars >>

\* show_add_patient_page, between the script runs that are in progress
StaffAddPatient(s) ==
    /\ Idle(s)
    /\ ShowAddPatientPage(s)

\* show_edit_patient_page as far as the form (lines 324-376): the rows are
\* read, a patient is selected and its row read
EditPatientRead(s) ==
    /\ Idle(s)
    /\ Page(s, "Edit Patient")
    /\ get_all_patients # << >>
    /\ \E patient_id \in DOMAIN patients :
          LET u == get_current_user(Session(s))
              patient == get_patient_by_id(patient_id)
              views == IF u.role = "admin" THEN << >>
                       ELSE << prepare_patient_data_for_role(patient, u.role).view >>
              decs == IF u.role = "admin"
                          THEN {patient_id} \X SensitiveColumns
                      ELSE {<< patient_id, "diagnosis" >>}
          IN  /\ script_run' = [script_run EXCEPT ![s] =
                                   [page |-> "Edit Patient", patient_id |-> patient_id,
                                    patient |-> patient]]
              /\ request' = Req(s, "Edit Patient", u.role, views, decs, {}, "", "", 0)
    /\ UNCHANGED << storeVars, session_state, last_call, issued, keyVars, engineVars >>

\* show_edit_patient_page from the submitted form on (lines 378-406): the
\* write of what was entered and, for the receptionist, of the diagnosis
\* decrypted from the row read before
EditPatientWrite(s) ==
    /\ script_run[s].page = "Edit Patient"
    /\ Len(logs) < MaxLogs
    /\ LET u == get_current_user(Session(s))
           patient_id == script_run[s].patient_id
           patient == script_run[s].patient
           current_diagnosis == decrypt_data(patient.diagnosis).val
       IN  \E submitted \in BOOLEAN :
           \E name \in IF submitted THEN FormNames ELSE {""},
              contact_number \in IF submitted THEN FormContacts ELSE {""},
              diagnosis_text \in IF u.role = "admin"
                                      THEN (IF submitted THEN EditDiagnoses ELSE {""})
                                  ELSE {current_diagnosis} :
              IF ~submitted \/ ~all_filled(name, contact_number, diagnosis_text)
                  THEN /\ UNCHANGED storeVars
                       /\ request' = Req(s, "Edit Patient", "", << >>, {}, {}, "", "", 0)
              ELSE \E iv \in IVs, ok \in BOOLEAN :
                   \E log_ok \in IF ok THEN BOOLEAN ELSE {FALSE} :
                      LET name_encrypted == encrypt_data(name, iv)
                          contact_encrypted == encrypt_data(contact_number, iv)
                          diagnosis_encrypted == encrypt_data(diagnosis_text, iv)
                      IN  IF \/ name_encrypted.exc # ""
                             \/ contact_encrypted.exc # ""
                             \/ diagnosis_encrypted.exc # ""
                              THEN /\ UNCHANGED storeVars
                                   /\ request' = Req(s, "Edit Patient", "", << >>, {}, {},
                                                     "", "", 0)
                          ELSE LET success == update_patient(patient_id,
                                                  name_encrypted.val,
                                                  contact_encrypted.val,
                                                  diagnosis_encrypted.val,
                                                  u.user_id, u.role, ok, log_ok)
                               IN  /\ patients' = success.patients
                                   /\ next_id' = next_id
                                   /\ logs' = success.logs
                                   /\ request' = Req(s, "Edit Patient", "", << >>, {},
                                                     success.logged, "update_patient",
                                                     success.ret, patient_id)
    /\ script_run' = [script_run EXCEPT ![s] = NoRun]
    /\ UNCHANGED << session_state, last_call, issued, keyVars, engineVars >>

\* show_delete_patient_page as far as the buttons (lines 415-436): the rows
\* are read and shown, a patient id is selected
DeletePatientRead(s) ==
    /\ Idle(s)
    /\ Page(s, "Delete Patient")
    /\ get_all_patients # << >>
    /\ \E selected_id \in DOMAIN patients :
          LET u == get_current_user(Session(s))
              display_data == ViewsFor(get_all_patients, u.role)
          IN  /\ script_run' = [script_run EXCEPT ![s] =
                                   [page |-> "Delete Patient", patient_id |-> selected_id,
                                    patient |-> NoRecord]]
              /\ request' = Req(s, "Delete Patient", u.role, display_data, {}, {},
                                "", "", 0)
    /\ UNCHANGED << storeVars, session_state, last_call, issued, keyVars, engineVars >>

\* show_delete_patient_page from the buttons on (lines 438-450)
DeletePatientWrite(s) ==
    /\ script_run[s].page = "Delete Patient"
    /\ Len(logs) < MaxLogs
    /\ \E pressed \in BOOLEAN :
       \E ok \in IF pressed THEN BOOLEAN ELSE {FALSE} :
       \E log_ok \in IF ok THEN BOOLEAN ELSE {FALSE} :
          LET u == get_current_user(Session(s))
              selected_id == script_run[s].patient_id
          IN  IF pressed
                  THEN LET success == delete_patient(selected_id, u.user_id, u.role,
                                                     ok, log_ok)
                       IN  /\ patients' = success.patients
                           /\ next_id' = next_id
                           /\ logs' = success.logs
                           /\ request' = Req(s, "Delete Patient", "", << >>, {},
                                             success.logged, "delete_patient",
                                             success.ret, selected_id)
              ELSE /\ UNCHANGED storeVars
                   /\ request' = Req(s, "Delete Patient", "", << >>, {}, {}, "", "", 0)
    /\ script_run' = [script_run EXCEPT ![s] = NoRun]
    /\ UNCHANGED << session_state, last_call, issued, keyVars, engineVars >>

NextConcurrent ==
    \E s \in Browsers :
        \/ StaffLogin(s)
        \/ StaffAddPatient(s)
        \/ EditPatientRead(s)
        \/ EditPatientWrite(s)
        \/ DeletePatientRead(s)
        \/ DeletePatientWrite(s)

SpecConcurrent == InitConcurrent /\ [][NextConcurrent]_vars

(***************************************************************************)
(* Properties.                                                             *)
(***************************************************************************)
\* e is what encrypt_data returns for the non-empty text p under the
\* configured key.
IsCiphertextOf(e, p) ==
    p # "" /\ \E iv \in IVs : encrypt_data(p, iv) = Return(e)

\* The record's three sensitive fields are ciphertexts of n, c and d.
HoldsTexts(p, n, c, d) ==
    /\ IsCiphertextOf(p.name, n)
    /\ IsCiphertextOf(p.contact, c)
    /\ IsCiphertextOf(p.diagnosis, d)

\* The pseudonym of a patient id, written out with TLC's own formatting.
Pseudonym(id) == "ANON_" \o ToString(id)

\* The last n characters of s (all of s when it is shorter).
RECURSIVE LastChars(_, _)
LastChars(s, n) == IF Len(s) <= n THEN s ELSE LastChars(Tail(s), n)

\* The mask of a contact text, from the rule in words.
MaskOf(c) == IF Len(c) < 4 THEN "XXX-XXX-XXXX" ELSE "XXX-XXX-" \o LastChars(c, 4)

KnownRoles == {"admin", "doctor", "receptionist"}
SensitiveFields == {"name", "contact", "diagnosis"}

\* C1: for role admin and a record whose name, contact and diagnosis are
\* valid non-empty ciphertexts of the active key, the view holds exactly
\* the three plaintexts, and the record's patient_id and date_added.
C1_AdminSeesPlaintexts ==
    (pc = "returned" /\ role = "admin") =>
        \A n \in NameTexts, c \in ContactTexts, d \in DiagnosisTexts :
            HoldsTexts(patient_data, n, c, d) =>
                view = [patient_id |-> patient_data.patient_id,
                        name |-> n, contact |-> c, diagnosis |-> d,
                        date_added |-> patient_data.date_added]

C1_Witness ==
    /\ pc = "returned" /\ role = "admin"
    /\ HoldsTexts(patient_data, "John Doe", "123-456-7890", "Fever and flu")
    /\ view.name = "John Doe"
    /\ view.contact = "123-456-7890"
    /\ view.diagnosis = "Fever and flu"

\* C2: for role doctor and a record with valid ciphertext fields, the name
\* is ANON_ followed by the patient id, the contact is the mask of the
\* decrypted contact, the diagnosis is the category of the decrypted
\* diagnosis, and patient_id and date_added pass through.
C2_DoctorSeesAnonymized ==
    (pc = "returned" /\ role = "doctor") =>
        /\ \A n \in NameTexts, c \in ContactTexts, d \in DiagnosisTexts :
              HoldsTexts(patient_data, n, c, d) =>
                  view = [patient_id |-> patient_data.patient_id,
                          name |-> Pseudonym(patient_data.patient_id),
                          contact |-> anonymize_contact(c),
                          diagnosis |-> anonymize_diagnosis(d),
                          date_added |-> patient_data.date_added]
        /\ (HoldsTexts(patient_data, "John Doe", "123-456-7890", "Fever and flu")
              /\ patient_data.patient_id = 1) =>
                  /\ view.name = "ANON_1"
                  /\ view.contact = "XXX-XXX-7890"
                  /\ view.diagnosis = "Respiratory Condition"

C2_Witness ==
    /\ pc = "returned" /\ role = "doctor"
    /\ HoldsTexts(patient_data, "John Doe", "123-456-7890", "High blood sugar")
    /\ patient_data.patient_id = 1021
    /\ view.name = "ANON_1021"
    /\ view.contact = "XXX-XXX-7890"
    /\ view.diagnosis = "Metabolic Condition"

\* The stated rules of the receptionist view: pseudonym, masked decrypted
\* contact (the doctor's rule), the fixed marker as diagnosis.
ReceptionistRules ==
    /\ view.patient_id = patient_data.patient_id
    /\ view.date_added = patient_data.date_added
    /\ view.name = Pseudonym(patient_data.patient_id)
    /\ view.contact = doctor_view(patient_data).view.contact
    /\ \A c \in ContactTexts :
          IsCiphertextOf(patient_data.contact, c) => view.contact = MaskOf(c)
    /\ view.diagnosis = "[Restricted]"

\* s occurs in one of the three text fields of the view v.
AppearsIn(s, v) ==
    \E f \in SensitiveFields : Contains(v[f], s)

\* C3 as stated: for role receptionist the view follows the rules above and
\* neither the real name nor the diagnosis plaintext appears in any field
\* of the view.
C3_Original ==
    (pc = "returned" /\ role = "receptionist") =>
        /\ ReceptionistRules
        /\ \A n \in NameTexts :
              IsCiphertextOf(patient_data.name, n) => ~AppearsIn(n, view)
        /\ \A d \in DiagnosisTexts :
              IsCiphertextOf(patient_data.diagnosis, d) => ~AppearsIn(d, view)

\* C3 as amended: for role receptionist the view follows the rules above
\* and is the same whatever the stored name and diagnosis are.
C3_ReceptionistView ==
    (pc = "returned" /\ role = "receptionist") =>
        /\ ReceptionistRules
        /\ \A n2 \in FieldValues(NameTexts), d2 \in FieldValues(DiagnosisTexts) :
              prepare_patient_data_for_role(
                  [patient_data EXCEPT !.name = n2, !.diagnosis = d2],
                  "receptionist").view = view

C3_Witness ==
    /\ pc = "returned" /\ role = "receptionist"
    /\ HoldsTexts(patient_data, "John Doe", "123-456-7890", "Fever and flu")
    /\ patient_data.patient_id = 1
    /\ view.name = "ANON_1"
    /\ view.contact = "XXX-XXX-7890"
    /\ view.diagnosis = "[Restricted]"

\* C4: for every role string other than exactly admin, doctor and
\* receptionist the call returns a view whose name, contact and diagnosis
\* are the marker and whose patient_id and date_added are the record's.
C4_UnknownRoleRestricted ==
    (pc = "returned" /\ role \notin KnownRoles) =>
        view = [patient_id |-> patient_data.patient_id,
                name |-> "[Restricted]",
                contact |-> "[Restricted]",
                diagnosis |-> "[Restricted]",
                date_added |-> patient_data.date_added]

C4_Witness ==
    /\ pc = "returned" /\ role = "Admin"
    /\ HoldsTexts(patient_data, "John Doe", "123-456-7890", "Fever and flu")
    /\ view.name = "[Restricted]"
    /\ view.contact = "[Restricted]"
    /\ view.diagnosis = "[Restricted]"

\* The outcome of the call on the record with the fields fs replaced.
WithName(n2) == [patient_data EXCEPT !.name = n2]
WithDiagnosis(d2) == [patient_data EXCEPT !.diagnosis = d2]

\* C5: for every role but admin the view does not depend on the stored
\* name and the cipher is not invoked on it; the receptionist view does not
\* depend on, and does not decrypt, the diagnosis; an unrecognized role's
\* view depends on no sensitive field.
C5_NameNeverRead ==
    (pc = "returned" /\ role # "admin") =>
        /\ "name" \notin cipher_calls
        /\ \A n2 \in FieldValues(NameTexts) :
              LET other == prepare_patient_data_for_role(WithName(n2), role)
              IN  other.view = view /\ "name" \notin other.calls
        /\ role = "receptionist" =>
              /\ "diagnosis" \notin cipher_calls
              /\ \A d2 \in FieldValues(DiagnosisTexts) :
                    LET other == prepare_patient_data_for_role(WithDiagnosis(d2), role)
                    IN  other.view = view /\ "diagnosis" \notin other.calls
        /\ role \notin KnownRoles =>
              /\ cipher_calls = {}
              /\ \A n2 \in FieldValues(NameTexts), c2 \in FieldValues(ContactTexts),
                    d2 \in FieldValues(DiagnosisTexts) :
                    LET other == prepare_patient_data_for_role(
                                     [patient_data EXCEPT !.name = n2,
                                         !.contact = c2, !.diagnosis = d2], role)
                    IN  other.view = view /\ other.calls = {}

C5_Witness ==
    /\ pc = "returned" /\ role = "doctor"
    /\ IsCiphertextOf(patient_data.name, "John Doe")
    /\ prepare_patient_data_for_role(
           WithName(Token("K1", 1, "ANON_1")), "doctor").view = view
    /\ cipher_calls = {"contact", "diagnosis"}

\* C6: anonymize_contact returns XXX-XXX-XXXX for a contact of fewer than 4
\* characters (the empty one included) and otherwise XXX-XXX- followed by
\* exactly its last 4 characters, verbatim, also when it has exactly 4; no
\* other character of the contact influences the result.
C6_ContactMask ==
    (pc = "returned") =>
        /\ Len(contact) < 4 => masked = "XXX-XXX-XXXX"
        /\ Len(contact) >= 4 =>
              /\ masked = "XXX-XXX-" \o LastChars(contact, 4)
              /\ Len(masked) = 12
              /\ \A c2 \in ContactInputs :
                    (Len(c2) >= 4 /\ LastChars(c2, 4) = LastChars(contact, 4))
                        => anonymize_contact(c2) = masked
        /\ contact = "7-a7" => masked = "XXX-XXX-7-a7"
        /\ contact = "a77-a" => masked = "XXX-XXX-77-a"

C6_Witness ==
    /\ pc = "returned"
    /\ Len(contact) = 4
    /\ masked = "XXX-XXX-" \o contact

\* The keyword sets in their order of priority, with their categories.
CategoryOrder ==
    << [words |-> {"fever", "flu", "cold", "cough"},
        category |-> "Respiratory Condition"],
       [words |-> {"diabetes", "sugar", "insulin"},
        category |-> "Metabolic Condition"],
       [words |-> {"heart", "cardiac", "blood pressure"},
        category |-> "Cardiovascular Condition"],
       [words |-> {"fracture", "injury", "wound"},
        category |-> "Injury/Trauma"] >>

\* The sets of which a keyword occurs in the lower-cased text d.
MatchingSets(d) ==
    {i \in DOMAIN CategoryOrder :
        \E w \in CategoryOrder[i].words : Contains(Lower(d), w)}

FiveCategories ==
    {CategoryOrder[i].category : i \in DOMAIN CategoryOrder}
        \cup {"General Medical Condition"}

\* C7: for a non-empty text, anonymize_diagnosis returns the category of
\* the first keyword set, in the fixed order, a keyword of which occurs in
\* the lower-cased text, and the general category when none does; the
\* result is one of the five categories.
C7_DiagnosisCategory ==
    (pc = "returned" /\ diagnosis # "") =>
        /\ LET M == MatchingSets(diagnosis)
           IN  category =
                   IF M = {} THEN "General Medical Condition"
                   ELSE CategoryOrder[CHOOSE i \in M : \A j \in M : i <= j].category
        /\ category \in FiveCategories
        /\ diagnosis = "SUGARFlu" => category = "Respiratory Condition"
        /\ diagnosis = "woundHeart" => category = "Cardiovascular Condition"
        /\ diagnosis = "bloodpressure" => category = "General Medical Condition"

C7_Witness ==
    /\ pc = "returned"
    /\ diagnosis = "insulinFlu"
    /\ category = "Respiratory Condition"

\* C8 as stated: for admin and doctor a record whose stored diagnosis is
\* empty yields the marker as the view's diagnosis, and the cipher is not
\* invoked for that field.
C8_Original ==
    (pc = "returned" /\ role \in {"admin", "doctor"}
        /\ patient_data.diagnosis = Raw("")) =>
            /\ view.diagnosis = "[Restricted]"
            /\ "diagnosis" \notin cipher_calls

\* C8 as amended: a record whose stored diagnosis is empty yields the
\* marker as the doctor view's diagnosis and the empty string as the admin
\* view's, and in both the cipher is not invoked for that field.
C8_EmptyDiagnosis ==
    (pc = "returned" /\ patient_data.diagnosis = Raw("")) =>
        /\ role = "doctor" => view.diagnosis = "[Restricted]"
        /\ role = "admin" => view.diagnosis = ""
        /\ role \in {"admin", "doctor"} => "diagnosis" \notin cipher_calls

C8_Witness ==
    /\ pc = "returned" /\ role = "doctor"
    /\ patient_data.diagnosis = Raw("")
    /\ IsCiphertextOf(patient_data.contact, "123-456-7890")
    /\ view.diagnosis = "[Restricted]"
    /\ cipher_calls = {"contact"}

\* C9: with a key configured, decrypt_data(encrypt_data(p)) = p for every
\* non-empty p, the sentinel and the marker included, and two distinct
\* plaintexts never get equal ciphertexts.
C9_RoundTrip ==
    /\ (pc = "decrypted" /\ data # "") => decrypted = data
    /\ (pc \in {"encrypted", "decrypted"} /\ encrypted.exc = "") =>
          \A p2 \in Plaintexts \ {data}, iv2 \in IVs :
              LET other == encrypt_data(p2, iv2)
              IN  other.exc = "" => other.val # encrypted.val

C9_Witness ==
    /\ pc = "decrypted"
    /\ data = "[Decryption Error]"
    /\ encrypted.val.key = "K2"
    /\ decrypted = "[Decryption Error]"

\* No key can be had from either source.
NoKeyConfigured == Falsy(secrets_key) /\ Falsy(env_key)

\* C10: encrypt_data("") = "" and decrypt_data("") = "" in every state,
\* also when no key is configured; encrypt_data of a non-empty text never
\* returns the empty string.
C10_EmptyIdentity ==
    /\ (pc \in {"encrypted", "decrypted"} /\ data = "") =>
          encrypted = Return(Raw(""))
    /\ (pc \in {"decrypted", "loaded"} /\ encrypted_data = Raw("")) =>
          decrypted = ""
    /\ (pc \in {"encrypted", "decrypted"} /\ data # "" /\ encrypted.exc = "") =>
          encrypted.val # Raw("")

C10_Witness ==
    /\ NoKeyConfigured
    /\ pc = "decrypted"
    /\ data = ""
    /\ encrypted = Return(Raw(""))
    /\ decrypted = ""

\* e is a non-empty stored string that does not decrypt: it is malformed
\* or tampered with (no token at all), or a token of a key that is not the
\* configured one, or no key is configured.
FailsToDecrypt(e) ==
    \/ e.key = "" /\ e.text # ""
    \/ e.key \in FernetKeys /\ get_cipher # Return(e.key)

\* C11: decrypt_data of a non-empty string that is malformed, tampered with
\* or encrypted under another key returns exactly the sentinel and raises
\* nothing; in an admin view the failure stays in its field: the fields
\* that do decrypt carry their plaintexts.
C11_FailureIsLocal ==
    /\ \A e \in StoredValues :
          FailsToDecrypt(e) =>
              decrypt_data(e).val = "[Decryption Error]" /\ decrypt_data(e).exc = ""
    /\ (pc = "returned" /\ role = "admin") =>
          \A f \in SensitiveFields :
              /\ FailsToDecrypt(patient_data[f]) => view[f] = "[Decryption Error]"
              /\ \A t \in NameTexts \cup ContactTexts \cup DiagnosisTexts :
                    IsCiphertextOf(patient_data[f], t) => view[f] = t

C11_Witness ==
    /\ pc = "returned" /\ role = "admin"
    /\ IsCiphertextOf(patient_data.name, "John Doe")
    /\ IsCiphertextOf(patient_data.contact, "123-456-7890")
    /\ patient_data.diagnosis = Raw("garbage")
    /\ view.name = "John Doe"
    /\ view.contact = "123-456-7890"
    /\ view.diagnosis = "[Decryption Error]"

\* The fields a role's rule decrypts.
DecryptedFields(r) ==
    CASE r = "admin" -> {"name", "contact", "diagnosis"}
      [] r = "doctor" -> {"contact", "diagnosis"}
      [] r = "receptionist" -> {"contact"}
      [] OTHER -> {}

\* C12: for every role and every field the role's rule decrypts, when the
\* field's ciphertext fails to decrypt the view's value for the field is
\* the sentinel.
C12_SentinelInView ==
    (pc = "returned") =>
        \A f \in DecryptedFields(role) :
            FailsToDecrypt(patient_data[f]) => view[f] = "[Decryption Error]"

\* C13: with the key available from neither source, key retrieval fails
\* with an error and no encrypt_data or decrypt_data call on a non-empty
\* value completes with a normal result.
C13_MissingKeyFatal ==
    NoKeyConfigured =>
        /\ get_cipher.exc # ""
        /\ (pc \in {"encrypted", "decrypted"} /\ data # "") => encrypted.exc # ""
        /\ (pc = "loaded" /\ encrypted_data # Raw("")) =>
              decrypt_data(encrypted_data).exc # ""

ViewKeys == {"patient_id", "name", "contact", "diagnosis", "date_added"}

\* v is a masked contact: the fixed prefix and four more characters.
IsMask(v) == Len(v) = 12 /\ SubSeq(v, 1, 8) = "XXX-XXX-"

\* v is one of the values a view may show for the field f of the record p:
\* the decrypted text, the field's masked or category form, or one of the
\* two fixed markers.
IsDisplayValue(p, f, v) ==
    \/ v = "[Restricted]"
    \/ v = "[Decryption Error]"
    \/ p[f] = Raw("") /\ v = ""
    \/ IsCiphertextOf(p[f], v)
    \/ f = "name" /\ v = Pseudonym(p.patient_id)
    \/ f = "contact" /\ IsMask(v)
    \/ f = "diagnosis" /\ v \in FiveCategories

\* C14: for every role string and every record whose sensitive fields are
\* any mix of valid, corrupt, wrong-key or empty ciphertext, the call
\* returns: no decrypt_data call of the role's branch lets an exception
\* escape, the view has exactly the five keys, and name, contact and
\* diagnosis are each a decrypted text, a masked or category value,
\* "[Restricted]" or "[Decryption Error]".
C14_Total ==
    (pc = "returned") =>
        /\ \A f \in cipher_calls : decrypt_data(patient_data[f]).exc = ""
        /\ DOMAIN view = ViewKeys
        /\ view.patient_id = patient_data.patient_id
        /\ view.date_added = patient_data.date_added
        /\ \A f \in SensitiveFields : IsDisplayValue(patient_data, f, view[f])

C14_Witness ==
    /\ pc = "returned" /\ role = "admin"
    /\ NoKeyConfigured
    /\ patient_data.name = Token("K2", 1, "John Doe")
    /\ patient_data.contact = Raw("garbage")
    /\ patient_data.diagnosis = Raw("")
    /\ cipher_calls = {"name", "contact"}
    /\ view.name = "[Decryption Error]"
    /\ view.contact = "[Decryption Error]"
    /\ view.diagnosis = ""

\* The view the role r gets of the record p.
ViewOf(p, r) == prepare_patient_data_for_role(p, r).view

\* The records that differ from the one of the call in their sensitive
\* fields only.
OtherRecords ==
    { [patient_data EXCEPT !.name = n2, !.contact = c2, !.diagnosis = d2] :
        n2 \in FieldValues(NameTexts), c2 \in FieldValues(ContactTexts),
        d2 \in FieldValues(DiagnosisTexts) }

\* The role one step below r in the ordering admin, doctor, receptionist,
\* unrecognized.
NextLower(r) ==
    CASE r = "admin" -> "doctor"
      [] r = "doctor" -> "receptionist"
      [] OTHER -> "unknown"

\* Every record with the same view for the role of the call has the same
\* view for the next lower role.
LowerViewDetermined ==
    \A q \in OtherRecords :
        ViewOf(q, role) = view =>
            ViewOf(q, NextLower(role)) = ViewOf(patient_data, NextLower(role))

\* A plaintext of the record that the view v shows while the view w does
\* not.
ShowsWithheld(v, w) ==
    \E f \in SensitiveFields :
        \E t \in NameTexts \cup ContactTexts \cup DiagnosisTexts :
            /\ IsCiphertextOf(patient_data[f], t)
            /\ AppearsIn(t, v) /\ ~AppearsIn(t, w)

C16_NoSideEffects ==
    [][ (pc' = "returned") =>
            /\ patient_data' = patient_data
            /\ patients' = patients /\ next_id' = next_id
            /\ logs' = logs
            /\ (pc = "returned" /\ role' = role) => view' = view ]_vars

C16_Witness ==
    /\ pc = "returned" /\ role = "admin"
    /\ secrets_key = "K1"
    /\ view.name = "John Doe"
    /\ patient_data.name = Token("K1", 1, "John Doe")
    /\ patients = (patient_data.patient_id :> patient_data)
    /\ logs = << >>

\* e is a non-empty ciphertext that encrypt_data produces under the
\* configured key.
IsCiphertext(e) ==
    e.text # "" /\ \E iv \in IVs : encrypt_data(e.text, iv) = Return(e)

\* The user of the session the last script run belongs to.
RequestUser == get_current_user(session_state[request.session])

\* C17: after any sequence of add, edit and delete operations through the
\* forms by any role, every stored record's name, contact and diagnosis
\* are each a non-empty ciphertext produced by encrypt_data under the
\* active key.
C17_StoredCiphertext ==
    \A id \in DOMAIN patients :
        \A f \in SensitiveFields : IsCiphertext(patients[id][f])

C17_Witness ==
    /\ request.call = "update_patient" /\ request.ret = "True"
    /\ RequestUser.role = "receptionist"
    /\ request.patient_id \in DOMAIN patients
    /\ IsCiphertextOf(patients[request.patient_id].name, "John Doe")
    /\ IsCiphertextOf(patients[request.patient_id].diagnosis, "Fever and flu")
    /\ \E i \in 1..Len(logs) : logs[i].action = "ADD_PATIENT"

\* The audit entry the spec asks of a database call.
AuditEntry(call, patient_id) ==
    [user_id |-> RequestUser.user_id,
     role |-> RequestUser.role,
     action |-> CASE call = "add_patient" -> "ADD_PATIENT"
                  [] call = "update_patient" -> "UPDATE_PATIENT"
                  [] call = "delete_patient" -> "DELETE_PATIENT"
                  [] OTHER -> "",
     details |-> CASE call = "add_patient" -> "Added patient ID: "
                   [] call = "update_patient" -> "Updated patient ID: "
                   [] call = "delete_patient" -> "Deleted patient ID: "
                   [] OTHER -> ""]

\* C18: whenever add_patient, update_patient or delete_patient returns
\* True, the audit log has a new entry with the caller's user_id and role,
\* the action kind of the call, and a detail naming the patient id.
C18_WritesAreLogged ==
    [][ (request'.ret = "True") =>
            /\ Len(logs') = Len(logs) + 1
            /\ LET new == logs'[Len(logs')]
                    asked == AuditEntry(request'.call, request'.patient_id)
               IN  /\ new.user_id = asked.user_id
                   /\ new.role = asked.role
                   /\ new.action = asked.action
                   /\ new.details = asked.details \o ToString(request'.patient_id) ]_vars

\* C19: every script run that computes and renders a role-shaped view of
\* at least one patient record calls log_action for the session's user.
C19_ViewsAreLogged ==
    [][ (request'.viewed # {}) => request'.logged # {} ]_vars

\* C20: no step removes or changes an existing log entry, so the number of
\* entries never decreases; in particular a delete of a patient keeps the
\* entries that mention it.
C20_AppendOnly ==
    [][ /\ Len(logs') >= Len(logs)
        /\ SubSeq(logs', 1, Len(logs)) = logs ]_vars

C20_Witness ==
    /\ request.call = "delete_patient" /\ request.ret = "True"
    /\ request.patient_id \notin DOMAIN patients
    /\ Len(logs) = 2
    /\ logs[1].action = "ADD_PATIENT"
    /\ logs[1].details = "Added patient ID: " \o ToString(request.patient_id)
    /\ logs[2].action = "DELETE_PATIENT"


(***************************************************************************)
(* C21: a successful update_patient(id, n, c, d) on a stored record id     *)
(* puts exactly (n, c, d) into its three encrypted columns in that one     *)
(* step, keeps its patient_id and date_added and leaves every other record *)
(* as it was; a successful delete_patient(id) on a stored record id        *)
(* removes that record and no other, get_patient_by_id(id) is then None    *)
(* and get_patient_count is one less.                                      *)
(***************************************************************************)
CalledOnStored(fn, id) ==
    /\ last_call'.fn = fn
    /\ last_call'.ret = "True"
    /\ last_call'.args.patient_id = id
    /\ id \in DOMAIN patients

C22_SessionFollowsLastCall ==
    [][ \A s \in Sessions :
          LET ss == session_state'[s]
          IN  /\ is_authenticated(ss) <=> last_call'.fn = "login_user"
              /\ last_call'.fn = "login_user" =>
                    get_current_user(ss) = last_call'.args
              /\ last_call'.fn # "login_user" => get_current_user(ss) = NoUser
              /\ (last_call'.fn = "logout_user" /\ last_call' # last_call) =>
                    DOMAIN ss = {}
              /\ last_call'.fn = "logout_user" =>
                    \A k \in DOMAIN ss \cap DOMAIN SessionDefaults :
                        ss[k] = SessionDefaults[k] ]_vars

\* A logout, and then the start of the next script run of the session.
C22_Witness ==
    /\ last_call.fn = "logout_user"
    /\ \E s \in Sessions :
          /\ DOMAIN session_state[s] = DOMAIN SessionDefaults \cup {"app_start_time"}
          /\ ~is_authenticated(session_state[s])

(***************************************************************************)
(* C23: authenticate_user(username, password_hash) returns (user_id,       *)
(* username, role) exactly when the users table has a row with that exact  *)
(* username and that exact password hash, and None otherwise: for an       *)
(* unknown user, a wrong password, and a username made of SQL text.  A     *)
(* login attempt that fails leaves the session unauthenticated and the     *)
(* logs table as it was.                                                   *)
(***************************************************************************)
\* The credentials init_database seeds, with the user each of them is.
SeededLogin(username, password) ==
    CASE username = "admin" /\ password = "admin123" ->
            [user_id |-> 1, username |-> "admin", role |-> "admin"]
      [] username = "dr_bob" /\ password = "doc123" ->
            [user_id |-> 2, username |-> "dr_bob", role |-> "doctor"]
      [] username = "alice_recep" /\ password = "rec123" ->
            [user_id |-> 3, username |-> "alice_recep", role |-> "receptionist"]
      [] OTHER -> NoUser

C23_LoginOnlyByExactRow ==
    [][ /\ \A username \in AttemptNames, password \in AttemptPasswords :
              authenticate_user(username, hash_password(password))
                  = SeededLogin(username, password)
        /\ \A s \in Sessions :
              (request'.page = "Login" /\ request'.session = s
                  /\ last_call'.fn = "show_login_page") =>
                 LET user == SeededLogin(last_call'.args.username,
                                         last_call'.args.password)
                 IN  IF user = NoUser
                         THEN /\ ~is_authenticated(session_state'[s])
                              /\ logs' = logs
                     ELSE /\ is_authenticated(session_state'[s])
                          /\ get_current_user(session_state'[s]) = user ]_vars

\* The login form was submitted with the username that carries SQL text,
\* after an earlier login and logout.
C23_Witness ==
    /\ request.page = "Login"
    /\ last_call.fn = "show_login_page"
    /\ last_call.args.username = "admin' OR '1'='1"
    /\ \E i \in 1..Len(logs) : logs[i].action = "LOGOUT"
    /\ \E s \in Sessions : ~is_authenticated(session_state[s])

AdminPages == {"Delete Patient", "Audit Logs", "Activity Analytics", "Data Export"}

C25_RoleGate ==
    /\ \A r \in Roles \ KnownRoles : menu_options(r) = {}
    /\ request.session \in Sessions =>
          LET r == RequestUser.role
          IN  /\ request.page \in AdminPages => r = "admin"
              /\ request.page = "View Patients" => r \in {"admin", "doctor"}
              /\ request.page \in {"Add Patient", "Edit Patient"} =>
                    r \in {"admin", "receptionist"}
              /\ request.call = "delete_patient" => r = "admin"
              /\ request.view_role = "admin" => r = "admin"
              /\ (\E id \in DOMAIN patients : << id, "name" >> \in request.decrypted) =>
                    r = "admin"

\* A doctor's session has rendered the patient list, with the doctor's
\* views.
C25_Witness ==
    /\ request.session \in Sessions
    /\ RequestUser.role = "doctor"
    /\ request.page = "View Patients"
    /\ request.view_role = "doctor"
    /\ request.viewed # {}

(***************************************************************************)
(* C26: whatever is added and edited through the application, also when a  *)
(* stored column of the edited record does not decrypt, no stored name,    *)
(* contact or diagnosis is a ciphertext whose plaintext is the text        *)
(* "[Decryption Error]".                                                   *)
(***************************************************************************)
C26_SentinelNeverStored ==
    \A id \in DOMAIN patients, f \in SensitiveColumns :
        ~(patients[id][f].key # "" /\ patients[id][f].text = DecryptionError)

(***************************************************************************)
(* C27: a receptionist's edit keeps the diagnosis: right after the update  *)
(* the record's diagnosis decrypts to what it decrypted to right before    *)
(* the update was written, also when an admin's edit of the record falls   *)
(* between the receptionist's read of the record and that write.           *)
(***************************************************************************)
\* The step is a successful update_patient by a session of role r on a
\* stored record.
UpdateBy(r) ==
    /\ request'.call = "update_patient"
    /\ request'.ret = "True"
    /\ request'.session \in DOMAIN session_state
    /\ get_current_user(session_state[request'.session]).role = r
    /\ request'.patient_id \in DOMAIN patients

C27_ReceptionistKeepsDiagnosis ==
    [][ UpdateBy("receptionist") =>
            decrypt_data(patients'[request'.patient_id].diagnosis).val
                = decrypt_data(patients[request'.patient_id].diagnosis).val ]_vars

(***************************************************************************)
(* C28: every True result of update_patient or delete_patient, and every   *)
(* UPDATE_PATIENT or DELETE_PATIENT audit entry, belongs to a call on a    *)
(* record that was stored when the call was made and that the call changed *)
(* or removed, also when two sessions act on the same patient id at once.  *)
(***************************************************************************)
C28_WritesHitStoredRecord ==
    [][ /\ (request'.call \in {"update_patient", "delete_patient"}
               /\ request'.ret = "True") =>
              request'.patient_id \in DOMAIN patients
        /\ (Len(logs') > Len(logs)
               /\ logs'[Len(logs')].action \in {"UPDATE_PATIENT", "DELETE_PATIENT"}) =>
              request'.patient_id \in DOMAIN patients ]_vars

\* The patients table a successful call leaves, whatever log_action did.
TableAfter(call) ==
    CASE call.fn = "add_patient" ->
            (next_id :> [patient_id |-> next_id,
                         name |-> call.args.name,
                         contact |-> call.args.contact,
                         diagnosis |-> call.args.diagnosis,
                         date_added |-> CURRENT_TIMESTAMP]) @@ patients
      [] call.fn = "update_patient" ->
            [id \in DOMAIN patients |->
               IF id = call.args.patient_id
                   THEN [patients[id] EXCEPT !.name = call.args.name,
                                             !.contact = call.args.contact,
                                             !.diagnosis = call.args.diagnosis]
               ELSE patients[id]]
      [] call.fn = "delete_patient" ->
            [id \in DOMAIN patients \ {call.args.patient_id} |-> patients[id]]
      [] OTHER -> patients

\* C29: a call of add_patient, update_patient or delete_patient whose
\* statement or commit fails returns False, leaves the patients table (and
\* the id counter) as it was and writes no audit entry; a call that succeeds
\* returns True and leaves the same table whether or not the INSERT of
\* log_action failed, and a failed log_action leaves the log as it was.
C29_FailureLeavesNoTrace ==
    [][ /\ last_call'.ret = "False" =>
              /\ patients' = patients
              /\ next_id' = next_id
              /\ logs' = logs
        /\ last_call'.ret = "True" =>
              /\ patients' = TableAfter(last_call')
              /\ \/ logs' = logs
                 \/ /\ Len(logs') = Len(logs) + 1
                    /\ SubSeq(logs', 1, Len(logs)) = logs ]_vars

\* A patient was added while log_action failed, and the last call failed.
C29_Witness ==
    /\ last_call.ret = "False"
    /\ last_call.fn \in {"add_patient", "update_patient", "delete_patient"}
    /\ DOMAIN patients # {}
    /\ logs = << >>

\* C30: the ids assigned so far are those below the AUTOINCREMENT counter;
\* every step gives a row it adds an id, and a pseudonym ANON_{id}, different
\* from each of them, whether still stored or deleted, files it under that
\* id, moves the counter past it, and never moves the counter back.
C30_IdsNeverReused ==
    [][ /\ \A id \in DOMAIN patients' \ DOMAIN patients :
              /\ patients'[id].patient_id = id
              /\ \A assigned \in 1..(next_id - 1) :
                    /\ id # assigned
                    /\ anonymize_name(id) # anonymize_name(assigned)
        /\ \A id \in DOMAIN patients' : id < next_id'
        /\ next_id' >= next_id ]_vars

\* Patient 1 was added and deleted, and the patient added afterwards is
\* patient 2.
C30_Witness ==
    /\ DOMAIN patients = {2}
    /\ next_id = 3
    /\ last_call.fn = "add_patient"
    /\ last_call.ret = "True"

====
